---- MODULE Spec2Model ----
(***************************************************************************)
(* Limit order book with integrated matching engine (namespace lob).       *)
(* State: the two side maps price -> PriceLevel, the id -> Order* index,   *)
(* the OrderPool (contiguous records + free-index stack), the counters     *)
(* and the optional trade callback.  Pointers to Order records are pool    *)
(* slot indices; nullptr is -1.  Every public operation is one action.     *)
(***************************************************************************)
EXTENDS Integers, Sequences, FiniteSets, TLC

\* ---- bounds of the model ----
MaxPrice == 2
MaxQty == 2
MaxId == 3
PoolCapacity == 3

\* ---- scalar types (types.hpp) ----
INVALID_PRICE == 0
nullptr == 0 - 1
EndIt == 0 - 2

PriceSet == 0..MaxPrice
QtySet == 0..MaxQty
IdSet == 0..MaxId
SideSet == {"Buy", "Sell"}
TypeSet == {"Limit", "Market"}

\* a defect of the trade quantity: the aggressor's remainder, unclamped
Min2_first(a, b) == a

Min2(a, b) == IF a < b THEN a ELSE b

MinOf(S) == CHOOSE x \in S : \A y \in S : x <= y

MaxOf(S) == CHOOSE x \in S : \A y \in S : x >= y

\* ---- Order record (order.hpp) ----
DefaultOrder ==
  [id |-> 0, price |-> INVALID_PRICE, quantity |-> 0, filled_quantity |-> 0,
   side |-> "Buy", type |-> "Limit", status |-> "New",
   prev |-> nullptr, next |-> nullptr, timestamp |-> 0]

remaining(o) == o.quantity - o.filled_quantity

is_filled(o) == o.filled_quantity >= o.quantity

\* ---- OrderResult (order_book.hpp) ----
DefaultResult ==
  [order_id |-> 0, status |-> "New", filled_quantity |-> 0,
   remaining_quantity |-> 0, trades |-> << >>]

\* ---- PriceLevel (price_level.hpp) ----
NewLevel(p) ==
  [price |-> p, total_quantity |-> 0, order_count |-> 0,
   head |-> nullptr, tail |-> nullptr]

VARIABLES bids_, asks_, orders_, pool_, next_id_, timestamp_counter_,
          trade_count_, total_volume_, trade_callback_, delivered, call, ret

vars == <<bids_, asks_, orders_, pool_, next_id_, timestamp_counter_,
          trade_count_, total_volume_, trade_callback_, delivered, call, ret>>

\* The book as one value, so that the member functions are operators on it.
Book ==
  [bids |-> bids_, asks |-> asks_, orders |-> orders_, pool |-> pool_,
   next_id |-> next_id_, timestamp_counter |-> timestamp_counter_,
   trade_count |-> trade_count_, total_volume |-> total_volume_,
   trade_callback |-> trade_callback_, delivered |-> << >>]

EmptyMap == [x \in {} |-> 0]

MapErase(f, k) == [x \in (DOMAIN f) \ {k} |-> f[x]]

MapPut(f, k, v) == [x \in (DOMAIN f) \cup {k} |-> IF x = k THEN v ELSE f[x]]

Levels(b, side) == IF side = "Buy" THEN b.bids ELSE b.asks

SetLevels(b, side, lv) ==
  IF side = "Buy" THEN [b EXCEPT !.bids = lv] ELSE [b EXCEPT !.asks = lv]

\* ---- OrderPool (order_pool.hpp) ----
\* orders holds the records of the acquired slots.  The record of a free slot
\* is dead storage: allocate() resets every field before the slot is handed
\* out again, so the model keeps no value for it and any read of a released
\* record is an evaluation error.  free_stack is free_stack_[0 .. free_count_).
OrderPool(capacity) ==
  [orders |-> [s \in {} |-> DefaultOrder],
   free_stack |-> [i \in 1..capacity |-> capacity - i],
   size |-> 0]

available(pool) == Len(pool.free_stack)

\* the slot allocate() hands out: the top of the free stack
allocate_slot(pool) == pool.free_stack[Len(pool.free_stack)]

\* a defect of allocate: the live size is not raised
allocate_keep_size(pool) ==
  [orders |-> [s \in (DOMAIN pool.orders) \cup {allocate_slot(pool)} |->
                 IF s = allocate_slot(pool) THEN DefaultOrder ELSE pool.orders[s]],
   free_stack |-> SubSeq(pool.free_stack, 1, Len(pool.free_stack) - 1),
   size |-> pool.size]

\* a defect of allocate: the record is handed out as the slot holds it
allocate_no_reset(pool) ==
  [orders |-> [s \in (DOMAIN pool.orders) \cup {allocate_slot(pool)} |->
                 IF s \in DOMAIN pool.orders THEN pool.orders[s] ELSE DefaultOrder],
   free_stack |-> SubSeq(pool.free_stack, 1, Len(pool.free_stack) - 1),
   size |-> pool.size + 1]

allocate(pool) ==
  [orders |-> [s \in (DOMAIN pool.orders) \cup {allocate_slot(pool)} |->
                 IF s = allocate_slot(pool) THEN DefaultOrder ELSE pool.orders[s]],
   free_stack |-> SubSeq(pool.free_stack, 1, Len(pool.free_stack) - 1),
   size |-> pool.size + 1]

\* a defect of deallocate: the live size is not decremented
deallocate_keep_size(pool, idx) ==
  [orders |-> [s \in (DOMAIN pool.orders) \ {idx} |-> pool.orders[s]],
   free_stack |-> Append(pool.free_stack, idx),
   size |-> pool.size]

deallocate(pool, idx) ==
  [orders |-> [s \in (DOMAIN pool.orders) \ {idx} |-> pool.orders[s]],
   free_stack |-> Append(pool.free_stack, idx),
   size |-> pool.size - 1]

\* ---- PriceLevel::add_order / remove_order, applied to the level at
\*      (side, price) of book b and the order record in slot o ----
\* a defect of add_order: the order is linked in front of the head
PriceLevel_add_order_at_head(b, side, price, o) ==
  LET level == Levels(b, side)[price]
      po == b.pool.orders
      po1 == [po EXCEPT ![o].prev = nullptr, ![o].next = level.head]
      po2 == IF level.head # nullptr
             THEN [po1 EXCEPT ![level.head].prev = o]
             ELSE po1
      level1 == [level EXCEPT
                   !.head = o,
                   !.tail = IF level.head # nullptr THEN level.tail ELSE o,
                   !.total_quantity = level.total_quantity + remaining(po[o]),
                   !.order_count = level.order_count + 1]
  IN  [SetLevels(b, side, MapPut(Levels(b, side), price, level1))
         EXCEPT !.pool.orders = po2]

\* a defect of add_order: the cached total grows by the order's full quantity
PriceLevel_add_order_adds_quantity(b, side, price, o) ==
  LET level == Levels(b, side)[price]
      po == b.pool.orders
      po1 == [po EXCEPT ![o].prev = level.tail, ![o].next = nullptr]
      po2 == IF level.tail # nullptr
             THEN [po1 EXCEPT ![level.tail].next = o]
             ELSE po1
      level1 == [level EXCEPT
                   !.head = IF level.tail # nullptr THEN level.head ELSE o,
                   !.tail = o,
                   !.total_quantity = level.total_quantity + po[o].quantity,
                   !.order_count = level.order_count + 1]
  IN  [SetLevels(b, side, MapPut(Levels(b, side), price, level1))
         EXCEPT !.pool.orders = po2]

PriceLevel_add_order(b, side, price, o) ==
  LET level == Levels(b, side)[price]
      po == b.pool.orders
      po1 == [po EXCEPT ![o].prev = level.tail, ![o].next = nullptr]
      po2 == IF level.tail # nullptr
             THEN [po1 EXCEPT ![level.tail].next = o]
             ELSE po1
      level1 == [level EXCEPT
                   !.head = IF level.tail # nullptr THEN level.head ELSE o,
                   !.tail = o,
                   !.total_quantity = level.total_quantity + remaining(po[o]),
                   !.order_count = level.order_count + 1]
  IN  [SetLevels(b, side, MapPut(Levels(b, side), price, level1))
         EXCEPT !.pool.orders = po2]

\* a defect of remove_order: the cached order count is not lowered
PriceLevel_remove_order_keep_count(b, side, price, o) ==
  LET level == Levels(b, side)[price]
      po == b.pool.orders
      ord == po[o]
      po1 == IF ord.prev # nullptr
             THEN [po EXCEPT ![ord.prev].next = ord.next]
             ELSE po
      po2 == IF ord.next # nullptr
             THEN [po1 EXCEPT ![ord.next].prev = ord.prev]
             ELSE po1
      po3 == [po2 EXCEPT ![o].prev = nullptr, ![o].next = nullptr]
      level1 == [level EXCEPT
                   !.head = IF ord.prev # nullptr THEN level.head ELSE ord.next,
                   !.tail = IF ord.next # nullptr THEN level.tail ELSE ord.prev,
                   !.total_quantity = level.total_quantity - remaining(ord)]
  IN  [SetLevels(b, side, MapPut(Levels(b, side), price, level1))
         EXCEPT !.pool.orders = po3]

\* a defect of remove_order: the tail pointer is left on a removed tail
PriceLevel_remove_order_stale_tail(b, side, price, o) ==
  LET level == Levels(b, side)[price]
      po == b.pool.orders
      ord == po[o]
      po1 == IF ord.prev # nullptr
             THEN [po EXCEPT ![ord.prev].next = ord.next]
             ELSE po
      po2 == IF ord.next # nullptr
             THEN [po1 EXCEPT ![ord.next].prev = ord.prev]
             ELSE po1
      po3 == [po2 EXCEPT ![o].prev = nullptr, ![o].next = nullptr]
      level1 == [level EXCEPT
                   !.head = IF ord.prev # nullptr THEN level.head ELSE ord.next,
                   !.total_quantity = level.total_quantity - remaining(ord),
                   !.order_count = level.order_count - 1]
  IN  [SetLevels(b, side, MapPut(Levels(b, side), price, level1))
         EXCEPT !.pool.orders = po3]

PriceLevel_remove_order(b, side, price, o) ==
  LET level == Levels(b, side)[price]
      po == b.pool.orders
      ord == po[o]
      po1 == IF ord.prev # nullptr
             THEN [po EXCEPT ![ord.prev].next = ord.next]
             ELSE po
      po2 == IF ord.next # nullptr
             THEN [po1 EXCEPT ![ord.next].prev = ord.prev]
             ELSE po1
      po3 == [po2 EXCEPT ![o].prev = nullptr, ![o].next = nullptr]
      level1 == [level EXCEPT
                   !.head = IF ord.prev # nullptr THEN level.head ELSE ord.next,
                   !.tail = IF ord.next # nullptr THEN level.tail ELSE ord.prev,
                   !.total_quantity = level.total_quantity - remaining(ord),
                   !.order_count = level.order_count - 1]
  IN  [SetLevels(b, side, MapPut(Levels(b, side), price, level1))
         EXCEPT !.pool.orders = po3]

level_empty(level) == level.head = nullptr

\* ---- OrderBook::execute_trade ----
\* m = [b |-> book, result |-> OrderResult under construction]
\* a defect of execute_trade: the trade prints at the aggressor's price
execute_trade_at_own_price(m, aggressive, passive, qty) ==
  LET b == m.b
      po == [b.pool.orders EXCEPT
               ![aggressive].filled_quantity = @ + qty,
               ![passive].filled_quantity = @ + qty]
      pas == po[passive]
      agg == po[aggressive]
      levels == Levels(b, pas.side)
      levels1 == IF pas.price \in DOMAIN levels
                 THEN [levels EXCEPT ![pas.price].total_quantity = @ - qty]
                 ELSE levels
      trade == [buy_order_id |-> IF agg.side = "Buy" THEN agg.id ELSE pas.id,
                sell_order_id |-> IF agg.side = "Buy" THEN pas.id ELSE agg.id,
                price |-> agg.price,
                quantity |-> qty,
                timestamp |-> b.timestamp_counter]
      b1 == [SetLevels(b, pas.side, levels1) EXCEPT
               !.pool.orders = po,
               !.trade_count = @ + 1,
               !.total_volume = @ + qty,
               !.delivered = IF b.trade_callback THEN Append(@, trade) ELSE @]
  IN  [b |-> b1, result |-> [m.result EXCEPT !.trades = Append(@, trade)]]

\* a defect of execute_trade: the callback is invoked before the trade is
\* counted and again after, so every trade is delivered twice
execute_trade_callback_twice(m, aggressive, passive, qty) ==
  LET b == m.b
      po == [b.pool.orders EXCEPT
               ![aggressive].filled_quantity = @ + qty,
               ![passive].filled_quantity = @ + qty]
      pas == po[passive]
      agg == po[aggressive]
      levels == Levels(b, pas.side)
      levels1 == IF pas.price \in DOMAIN levels
                 THEN [levels EXCEPT ![pas.price].total_quantity = @ - qty]
                 ELSE levels
      trade == [buy_order_id |-> IF agg.side = "Buy" THEN agg.id ELSE pas.id,
                sell_order_id |-> IF agg.side = "Buy" THEN pas.id ELSE agg.id,
                price |-> pas.price,
                quantity |-> qty,
                timestamp |-> b.timestamp_counter]
      b1 == [SetLevels(b, pas.side, levels1) EXCEPT
               !.pool.orders = po,
               !.trade_count = @ + 1,
               !.total_volume = @ + qty,
               !.delivered = IF b.trade_callback
                             THEN Append(Append(@, trade), trade) ELSE @]
  IN  [b |-> b1, result |-> [m.result EXCEPT !.trades = Append(@, trade)]]

\* a defect of execute_trade: the passive level's cached total is not lowered
execute_trade_keep_level_total(m, aggressive, passive, qty) ==
  LET b == m.b
      po == [b.pool.orders EXCEPT
               ![aggressive].filled_quantity = @ + qty,
               ![passive].filled_quantity = @ + qty]
      pas == po[passive]
      agg == po[aggressive]
      trade == [buy_order_id |-> IF agg.side = "Buy" THEN agg.id ELSE pas.id,
                sell_order_id |-> IF agg.side = "Buy" THEN pas.id ELSE agg.id,
                price |-> pas.price,
                quantity |-> qty,
                timestamp |-> b.timestamp_counter]
      b1 == [b EXCEPT
               !.pool.orders = po,
               !.trade_count = @ + 1,
               !.total_volume = @ + qty,
               !.delivered = IF b.trade_callback THEN Append(@, trade) ELSE @]
  IN  [b |-> b1, result |-> [m.result EXCEPT !.trades = Append(@, trade)]]

\* a defect of execute_trade: total volume counts trades, not their quantity
execute_trade_volume_by_one(m, aggressive, passive, qty) ==
  LET b == m.b
      po == [b.pool.orders EXCEPT
               ![aggressive].filled_quantity = @ + qty,
               ![passive].filled_quantity = @ + qty]
      pas == po[passive]
      agg == po[aggressive]
      levels == Levels(b, pas.side)
      levels1 == IF pas.price \in DOMAIN levels
                 THEN [levels EXCEPT ![pas.price].total_quantity = @ - qty]
                 ELSE levels
      trade == [buy_order_id |-> IF agg.side = "Buy" THEN agg.id ELSE pas.id,
                sell_order_id |-> IF agg.side = "Buy" THEN pas.id ELSE agg.id,
                price |-> pas.price,
                quantity |-> qty,
                timestamp |-> b.timestamp_counter]
      b1 == [SetLevels(b, pas.side, levels1) EXCEPT
               !.pool.orders = po,
               !.trade_count = @ + 1,
               !.total_volume = @ + 1,
               !.delivered = IF b.trade_callback THEN Append(@, trade) ELSE @]
  IN  [b |-> b1, result |-> [m.result EXCEPT !.trades = Append(@, trade)]]

\* a defect of execute_trade: every trade draws a timestamp of its own
execute_trade_stamps_each_trade(m, aggressive, passive, qty) ==
  LET b == m.b
      po == [b.pool.orders EXCEPT
               ![aggressive].filled_quantity = @ + qty,
               ![passive].filled_quantity = @ + qty]
      pas == po[passive]
      agg == po[aggressive]
      levels == Levels(b, pas.side)
      levels1 == IF pas.price \in DOMAIN levels
                 THEN [levels EXCEPT ![pas.price].total_quantity = @ - qty]
                 ELSE levels
      trade == [buy_order_id |-> IF agg.side = "Buy" THEN agg.id ELSE pas.id,
                sell_order_id |-> IF agg.side = "Buy" THEN pas.id ELSE agg.id,
                price |-> pas.price,
                quantity |-> qty,
                timestamp |-> b.timestamp_counter + 1]
      b1 == [SetLevels(b, pas.side, levels1) EXCEPT
               !.pool.orders = po,
               !.timestamp_counter = @ + 1,
               !.trade_count = @ + 1,
               !.total_volume = @ + qty,
               !.delivered = IF b.trade_callback THEN Append(@, trade) ELSE @]
  IN  [b |-> b1, result |-> [m.result EXCEPT !.trades = Append(@, trade)]]

execute_trade(m, aggressive, passive, qty) ==
  LET b == m.b
      po == [b.pool.orders EXCEPT
               ![aggressive].filled_quantity = @ + qty,
               ![passive].filled_quantity = @ + qty]
      pas == po[passive]
      agg == po[aggressive]
      levels == Levels(b, pas.side)
      levels1 == IF pas.price \in DOMAIN levels
                 THEN [levels EXCEPT ![pas.price].total_quantity = @ - qty]
                 ELSE levels
      trade == [buy_order_id |-> IF agg.side = "Buy" THEN agg.id ELSE pas.id,
                sell_order_id |-> IF agg.side = "Buy" THEN pas.id ELSE agg.id,
                price |-> pas.price,
                quantity |-> qty,
                timestamp |-> b.timestamp_counter]
      b1 == [SetLevels(b, pas.side, levels1) EXCEPT
               !.pool.orders = po,
               !.trade_count = @ + 1,
               !.total_volume = @ + qty,
               !.delivered = IF b.trade_callback THEN Append(@, trade) ELSE @]
  IN  [b |-> b1, result |-> [m.result EXCEPT !.trades = Append(@, trade)]]

\* ---- inner while loop of match_against_asks / match_against_bids ----
\* a defect of the filled-passive branch: the order stays in the index
remove_filled_passive_keep_index(b, side, price, passive) ==
  [[PriceLevel_remove_order(b, side, price, passive) EXCEPT
      !.pool.orders[passive].status = "Filled"]
   EXCEPT !.pool = deallocate(@, passive)]

\* the body of `if (passive->is_filled())`: unlink, erase from the index,
\* mark Filled, release to the pool
remove_filled_passive(b, side, price, passive) ==
  [[PriceLevel_remove_order(b, side, price, passive) EXCEPT
      !.orders = MapErase(@, b.pool.orders[passive].id),
      !.pool.orders[passive].status = "Filled"]
   EXCEPT !.pool = deallocate(@, passive)]

\* a defect of the inner loop: a filled passive order is left where it is
after_execute_trade_keep_filled(m1, side, price, passive) == m1

\* the loop body after execute_trade: m1 is the state execute_trade left
after_execute_trade(m1, side, price, passive) ==
  IF is_filled(m1.b.pool.orders[passive])
  THEN [m1 EXCEPT !.b = remove_filled_passive(m1.b, side, price, passive)]
  ELSE m1

RECURSIVE MatchLevel(_, _, _, _, _)
MatchLevel(m, order, side, price, passive) ==
  IF passive = nullptr \/ ~(remaining(m.b.pool.orders[order]) > 0)
  THEN m
  ELSE MatchLevel(
         after_execute_trade(
           execute_trade(m, order, passive,
                         Min2(remaining(m.b.pool.orders[order]),
                              remaining(m.b.pool.orders[passive]))),
           side, price, passive),
         order, side, price, m.b.pool.orders[passive].next)

\* asks_.begin() / ++it / the iterator returned by asks_.erase(it)
\* a defect of the ask walk: it starts at the highest ask
AsksBegin_highest(asks) == IF DOMAIN asks = {} THEN EndIt ELSE MaxOf(DOMAIN asks)

AsksBegin(asks) == IF DOMAIN asks = {} THEN EndIt ELSE MinOf(DOMAIN asks)

AsksNext(asks, it) ==
  IF {p \in DOMAIN asks : p > it} = {} THEN EndIt
  ELSE MinOf({p \in DOMAIN asks : p > it})

\* bids_.rbegin() / ++it on the reverse iterator
BidsRBegin(bids) == IF DOMAIN bids = {} THEN EndIt ELSE MaxOf(DOMAIN bids)

BidsRNext(bids, it) ==
  IF {p \in DOMAIN bids : p < it} = {} THEN EndIt
  ELSE MaxOf({p \in DOMAIN bids : p < it})

\* a defect of the limit check: it never stops the walk
ask_exceeds_limit_never(ord, it) == FALSE

\* `order->type == OrderType::Limit && it->first > order->price` (line 140)
ask_exceeds_limit(ord, it) == ord.type = "Limit" /\ it > ord.price

\* a defect of the limit check: a bid at the limit itself is refused
bid_below_limit_or_equal(ord, it) == ord.type = "Limit" /\ it <= ord.price

\* `order->type == OrderType::Limit && it->first < order->price` (line 174)
bid_below_limit(ord, it) == ord.type = "Limit" /\ it < ord.price

\* ---- OrderBook::match_against_asks (outer loop) ----
RECURSIVE match_against_asks_from(_, _, _)
RECURSIVE asks_level_done(_, _, _)

\* a defect of the outer loop: an emptied ask level is stepped over, not erased
asks_level_done_never_erase(m1, order, it) ==
  match_against_asks_from(m1, order, AsksNext(m1.b.asks, it))

\* `if (level.empty()) it = asks_.erase(it); else ++it;` and the next round
asks_level_done(m1, order, it) ==
  IF level_empty(m1.b.asks[it])
  THEN match_against_asks_from([m1 EXCEPT !.b.asks = MapErase(@, it)], order,
                               AsksNext(MapErase(m1.b.asks, it), it))
  ELSE match_against_asks_from(m1, order, AsksNext(m1.b.asks, it))

match_against_asks_from(m, order, it) ==
  IF it = EndIt \/ ~(remaining(m.b.pool.orders[order]) > 0) THEN m
  ELSE IF ask_exceeds_limit(m.b.pool.orders[order], it) THEN m
  ELSE asks_level_done(MatchLevel(m, order, "Sell", it, m.b.asks[it].head),
                       order, it)

match_against_asks(m, order) ==
  match_against_asks_from(m, order, AsksBegin(m.b.asks))

\* ---- OrderBook::match_against_bids (outer loop) ----
RECURSIVE match_against_bids_from(_, _, _)
RECURSIVE bids_level_done(_, _, _)

\* a defect of the outer loop: matching stops after the first bid level
bids_level_done_stop(m1, order, it) ==
  IF level_empty(m1.b.bids[it])
  THEN [m1 EXCEPT !.b.bids = MapErase(@, it)]
  ELSE m1

\* `if (level.empty()) { bids_.erase(std::next(it).base()); it = bids_.rbegin(); }
\*  else ++it;` and the next round
bids_level_done(m1, order, it) ==
  IF level_empty(m1.b.bids[it])
  THEN match_against_bids_from([m1 EXCEPT !.b.bids = MapErase(@, it)], order,
                               BidsRBegin(MapErase(m1.b.bids, it)))
  ELSE match_against_bids_from(m1, order, BidsRNext(m1.b.bids, it))

match_against_bids_from(m, order, it) ==
  IF it = EndIt \/ ~(remaining(m.b.pool.orders[order]) > 0) THEN m
  ELSE IF bid_below_limit(m.b.pool.orders[order], it) THEN m
  ELSE bids_level_done(MatchLevel(m, order, "Buy", it, m.b.bids[it].head),
                       order, it)

match_against_bids(m, order) ==
  match_against_bids_from(m, order, BidsRBegin(m.b.bids))

\* ---- OrderBook::match_order ----
match_order(m, order) ==
  IF m.b.pool.orders[order].side = "Buy"
  THEN match_against_asks(m, order)
  ELSE match_against_bids(m, order)

\* ---- OrderBook::insert_into_book ----
\* try_emplace(price, price) creates the level only if the price is absent
try_emplace(b, side, price) ==
  IF price \in DOMAIN Levels(b, side) THEN b
  ELSE SetLevels(b, side, MapPut(Levels(b, side), price, NewLevel(price)))

insert_into_book(b, order) ==
  PriceLevel_add_order(
    try_emplace(b, b.pool.orders[order].side, b.pool.orders[order].price),
    b.pool.orders[order].side, b.pool.orders[order].price, order)

\* ---- OrderBook::add_order ----
\* Every public operation returns [b, ok, threw, result]: the book it leaves,
\* the boolean it returns (for add_order: that it returned at all), whether
\* it threw, and the OrderResult.

\* a defect of the id generator: the id is read without advancing next_id_
new_order_same_id(b, order, side, type, price, quantity) ==
  [b |-> [b EXCEPT !.pool = [allocate(@) EXCEPT !.orders[order] =
                     [DefaultOrder EXCEPT !.id = b.next_id + 1, !.side = side,
                                          !.type = type, !.price = price,
                                          !.quantity = quantity,
                                          !.filled_quantity = 0,
                                          !.status = "Active",
                                          !.timestamp = b.timestamp_counter + 1]],
                    !.timestamp_counter = @ + 1],
   result |-> [DefaultResult EXCEPT !.order_id = b.next_id + 1]]

\* a defect of add_order: the timestamp counter is read but not advanced
new_order_same_timestamp(b, order, side, type, price, quantity) ==
  [b |-> [b EXCEPT !.pool = [allocate(@) EXCEPT !.orders[order] =
                     [DefaultOrder EXCEPT !.id = b.next_id + 1, !.side = side,
                                          !.type = type, !.price = price,
                                          !.quantity = quantity,
                                          !.filled_quantity = 0,
                                          !.status = "Active",
                                          !.timestamp = b.timestamp_counter + 1]],
                    !.next_id = @ + 1],
   result |-> [DefaultResult EXCEPT !.order_id = b.next_id + 1]]

\* lines 14-24: acquire the record, fill it in, start the result
new_order(b, order, side, type, price, quantity) ==
  [b |-> [b EXCEPT !.pool = [allocate(@) EXCEPT !.orders[order] =
                     [DefaultOrder EXCEPT !.id = b.next_id + 1, !.side = side,
                                          !.type = type, !.price = price,
                                          !.quantity = quantity,
                                          !.filled_quantity = 0,
                                          !.status = "Active",
                                          !.timestamp = b.timestamp_counter + 1]],
                    !.next_id = @ + 1,
                    !.timestamp_counter = @ + 1],
   result |-> [DefaultResult EXCEPT !.order_id = b.next_id + 1]]

\* a defect of the resting status: partial fills are not recorded
resting_status_unchanged(ord) == ord.status

\* the status a limit order rests with (lines 38-40)
resting_status(ord) ==
  IF ord.filled_quantity > 0 THEN "PartiallyFilled" ELSE ord.status

\* lines 29-35: fully filled, back to the pool
finish_filled(m, order) ==
  [b |-> [[m.b EXCEPT !.pool.orders[order].status = "Filled"]
            EXCEPT !.pool = deallocate(@, order)],
   ok |-> TRUE, threw |-> FALSE,
   result |-> [m.result EXCEPT
                 !.status = "Filled",
                 !.filled_quantity = m.b.pool.orders[order].filled_quantity,
                 !.remaining_quantity = 0]]

\* lines 36-46: the order rests
finish_resting(m, order) ==
  [b |-> [insert_into_book(
            [m.b EXCEPT !.pool.orders[order].status =
                          resting_status(m.b.pool.orders[order])],
            order)
          EXCEPT !.orders = MapPut(@, m.b.pool.orders[order].id, order)],
   ok |-> TRUE, threw |-> FALSE,
   result |-> [m.result EXCEPT
                 !.status = resting_status(m.b.pool.orders[order]),
                 !.filled_quantity = m.b.pool.orders[order].filled_quantity,
                 !.remaining_quantity = remaining(m.b.pool.orders[order])]]

\* a defect of the market discard: the record is not given back to the pool
finish_unfilled_market_keep_record(m, order) ==
  [b |-> m.b,
   ok |-> TRUE, threw |-> FALSE,
   result |-> [m.result EXCEPT
                 !.status = "Cancelled",
                 !.filled_quantity = m.b.pool.orders[order].filled_quantity,
                 !.remaining_quantity = remaining(m.b.pool.orders[order])]]

\* lines 47-53: unfilled market order, back to the pool
finish_unfilled_market(m, order) ==
  [b |-> [m.b EXCEPT !.pool = deallocate(@, order)],
   ok |-> TRUE, threw |-> FALSE,
   result |-> [m.result EXCEPT
                 !.status = "Cancelled",
                 !.filled_quantity = m.b.pool.orders[order].filled_quantity,
                 !.remaining_quantity = remaining(m.b.pool.orders[order])]]

\* a defect of the resting decision: an unfilled market order rests
finish_order_rest_any(m, order, type) ==
  IF is_filled(m.b.pool.orders[order]) THEN finish_filled(m, order)
  ELSE finish_resting(m, order)

\* a defect of the resting decision: a limit order rests even when filled
finish_order_rest_filled_limit(m, order, type) ==
  IF type = "Limit" THEN finish_resting(m, order)
  ELSE IF is_filled(m.b.pool.orders[order]) THEN finish_filled(m, order)
  ELSE finish_unfilled_market(m, order)

\* lines 29-55: m is the state match_order left
finish_order(m, order, type) ==
  IF is_filled(m.b.pool.orders[order]) THEN finish_filled(m, order)
  ELSE IF type = "Limit" THEN finish_resting(m, order)
  ELSE finish_unfilled_market(m, order)

\* a defect of add_order: the id is drawn before the record is acquired, so
\* a submit that fails on the exhausted pool still consumes an id
add_order_id_before_allocate(b, side, type, price, quantity) ==
  IF available(b.pool) = 0
  THEN [b |-> [b EXCEPT !.next_id = @ + 1], ok |-> FALSE, threw |-> TRUE,
        result |-> DefaultResult]
  ELSE finish_order(
         match_order(new_order(b, allocate_slot(b.pool), side, type, price, quantity),
                     allocate_slot(b.pool)),
         allocate_slot(b.pool), type)

add_order(b, side, type, price, quantity) ==
  IF available(b.pool) = 0
  THEN [b |-> b, ok |-> FALSE, threw |-> TRUE, result |-> DefaultResult]
  ELSE finish_order(
         match_order(new_order(b, allocate_slot(b.pool), side, type, price, quantity),
                     allocate_slot(b.pool)),
         allocate_slot(b.pool), type)

\* ---- OrderBook::cancel_order ----
\* a defect of cancel_order: the emptied level stays in the map
erase_if_empty_never(b, side, price) == b

\* `if (level_it->second.empty()) levels.erase(level_it);`
erase_if_empty(b, side, price) ==
  IF level_empty(Levels(b, side)[price])
  THEN SetLevels(b, side, MapErase(Levels(b, side), price))
  ELSE b

\* lines 64-76: remove the order in slot `order` from its price level
remove_from_level(b, order) ==
  IF b.pool.orders[order].price \in DOMAIN Levels(b, b.pool.orders[order].side)
  THEN erase_if_empty(
         PriceLevel_remove_order(b, b.pool.orders[order].side,
                                 b.pool.orders[order].price, order),
         b.pool.orders[order].side, b.pool.orders[order].price)
  ELSE b

\* lines 64-82: the order was found
cancel_found(b, order_id) ==
  [b |-> [[remove_from_level(b, b.orders[order_id]) EXCEPT
             !.orders = MapErase(@, order_id),
             !.pool.orders[b.orders[order_id]].status = "Cancelled"]
          EXCEPT !.pool = deallocate(@, b.orders[order_id])],
   ok |-> TRUE, threw |-> FALSE, result |-> DefaultResult]

\* a defect of cancel_order: an unknown id is reported as cancelled
cancel_order_always_true(b, order_id) ==
  IF order_id \notin DOMAIN b.orders
  THEN [b |-> b, ok |-> TRUE, threw |-> FALSE, result |-> DefaultResult]
  ELSE cancel_found(b, order_id)

cancel_order(b, order_id) ==
  IF order_id \notin DOMAIN b.orders
  THEN [b |-> b, ok |-> FALSE, threw |-> FALSE, result |-> DefaultResult]
  ELSE cancel_found(b, order_id)

\* ---- OrderBook::modify_order ----
\* a defect of the reduction: the level's cached quantity drops by what is
\* left of the order instead of by the difference
reduce_quantity_total_by_new(b, order, new_quantity) ==
  LET ord == b.pool.orders[order]
      new_remaining == new_quantity - ord.filled_quantity
      levels == Levels(b, ord.side)
  IN  [SetLevels(b, ord.side,
                 IF ord.price \in DOMAIN levels
                 THEN [levels EXCEPT ![ord.price].total_quantity =
                         @ - new_remaining]
                 ELSE levels)
         EXCEPT !.pool.orders[order].quantity = new_quantity]

\* a defect of the reduction: the level's cached quantity drops by the whole
\* old remainder of the order instead of by the difference
reduce_quantity_total_by_old(b, order, new_quantity) ==
  LET ord == b.pool.orders[order]
      old_remaining == remaining(ord)
      levels == Levels(b, ord.side)
  IN  [SetLevels(b, ord.side,
                 IF ord.price \in DOMAIN levels
                 THEN [levels EXCEPT ![ord.price].total_quantity =
                         @ - old_remaining]
                 ELSE levels)
         EXCEPT !.pool.orders[order].quantity = new_quantity]

\* lines 99-111: reduce in place
reduce_quantity(b, order, new_quantity) ==
  LET ord == b.pool.orders[order]
      old_remaining == remaining(ord)
      new_remaining == new_quantity - ord.filled_quantity
      levels == Levels(b, ord.side)
  IN  [SetLevels(b, ord.side,
                 IF ord.price \in DOMAIN levels
                 THEN [levels EXCEPT ![ord.price].total_quantity =
                         @ - (old_remaining - new_remaining)]
                 ELSE levels)
         EXCEPT !.pool.orders[order].quantity = new_quantity]

\* line 119: modify_order discards the OrderResult and returns true
discard_result(a) ==
  [b |-> a.b, ok |-> ~a.threw, threw |-> a.threw, result |-> DefaultResult]

\* a defect of modify_order: an increase is applied in place, like a
\* reduction, so the order keeps its id and its place in the queue
modify_order_increase_in_place(b, order_id, new_quantity) ==
  IF order_id \notin DOMAIN b.orders
  THEN [b |-> b, ok |-> FALSE, threw |-> FALSE, result |-> DefaultResult]
  ELSE IF new_quantity <= b.pool.orders[b.orders[order_id]].filled_quantity
  THEN cancel_order(b, order_id)
  ELSE IF new_quantity # b.pool.orders[b.orders[order_id]].quantity
  THEN [b |-> reduce_quantity(b, b.orders[order_id], new_quantity),
        ok |-> TRUE, threw |-> FALSE, result |-> DefaultResult]
  ELSE [b |-> b, ok |-> TRUE, threw |-> FALSE, result |-> DefaultResult]

\* a defect of modify_order: a new quantity equal to the filled quantity is
\* not treated as a cancel
modify_order_cancel_below_filled(b, order_id, new_quantity) ==
  IF order_id \notin DOMAIN b.orders
  THEN [b |-> b, ok |-> FALSE, threw |-> FALSE, result |-> DefaultResult]
  ELSE IF new_quantity < b.pool.orders[b.orders[order_id]].filled_quantity
  THEN cancel_order(b, order_id)
  ELSE IF new_quantity < b.pool.orders[b.orders[order_id]].quantity
  THEN [b |-> reduce_quantity(b, b.orders[order_id], new_quantity),
        ok |-> TRUE, threw |-> FALSE, result |-> DefaultResult]
  ELSE IF new_quantity > b.pool.orders[b.orders[order_id]].quantity
  THEN discard_result(
         add_order(cancel_order(b, order_id).b,
                   b.pool.orders[b.orders[order_id]].side, "Limit",
                   b.pool.orders[b.orders[order_id]].price, new_quantity))
  ELSE [b |-> b, ok |-> TRUE, threw |-> FALSE, result |-> DefaultResult]

\* a defect of modify_order: the increase resubmits a market order
modify_order_resubmit_market(b, order_id, new_quantity) ==
  IF order_id \notin DOMAIN b.orders
  THEN [b |-> b, ok |-> FALSE, threw |-> FALSE, result |-> DefaultResult]
  ELSE IF new_quantity <= b.pool.orders[b.orders[order_id]].filled_quantity
  THEN cancel_order(b, order_id)
  ELSE IF new_quantity < b.pool.orders[b.orders[order_id]].quantity
  THEN [b |-> reduce_quantity(b, b.orders[order_id], new_quantity),
        ok |-> TRUE, threw |-> FALSE, result |-> DefaultResult]
  ELSE IF new_quantity > b.pool.orders[b.orders[order_id]].quantity
  THEN discard_result(
         add_order(cancel_order(b, order_id).b,
                   b.pool.orders[b.orders[order_id]].side, "Market",
                   b.pool.orders[b.orders[order_id]].price, new_quantity))
  ELSE [b |-> b, ok |-> TRUE, threw |-> FALSE, result |-> DefaultResult]

\* the old order is cancelled after the new one was submitted
cancel_after_add(a, order_id) ==
  IF a.threw THEN discard_result(a)
  ELSE discard_result([a EXCEPT !.b = cancel_order(a.b, order_id).b])

\* a defect of modify_order: the increase submits the new order before it
\* cancels the old one
modify_order_add_before_cancel(b, order_id, new_quantity) ==
  IF order_id \notin DOMAIN b.orders
  THEN [b |-> b, ok |-> FALSE, threw |-> FALSE, result |-> DefaultResult]
  ELSE IF new_quantity <= b.pool.orders[b.orders[order_id]].filled_quantity
  THEN cancel_order(b, order_id)
  ELSE IF new_quantity < b.pool.orders[b.orders[order_id]].quantity
  THEN [b |-> reduce_quantity(b, b.orders[order_id], new_quantity),
        ok |-> TRUE, threw |-> FALSE, result |-> DefaultResult]
  ELSE IF new_quantity > b.pool.orders[b.orders[order_id]].quantity
  THEN cancel_after_add(
         add_order(b, b.pool.orders[b.orders[order_id]].side, "Limit",
                   b.pool.orders[b.orders[order_id]].price, new_quantity),
         order_id)
  ELSE [b |-> b, ok |-> TRUE, threw |-> FALSE, result |-> DefaultResult]

modify_order(b, order_id, new_quantity) ==
  IF order_id \notin DOMAIN b.orders
  THEN [b |-> b, ok |-> FALSE, threw |-> FALSE, result |-> DefaultResult]
  ELSE IF new_quantity <= b.pool.orders[b.orders[order_id]].filled_quantity
  THEN cancel_order(b, order_id)
  ELSE IF new_quantity < b.pool.orders[b.orders[order_id]].quantity
  THEN [b |-> reduce_quantity(b, b.orders[order_id], new_quantity),
        ok |-> TRUE, threw |-> FALSE, result |-> DefaultResult]
  ELSE IF new_quantity > b.pool.orders[b.orders[order_id]].quantity
  THEN discard_result(
         add_order(cancel_order(b, order_id).b,
                   b.pool.orders[b.orders[order_id]].side, "Limit",
                   b.pool.orders[b.orders[order_id]].price, new_quantity))
  ELSE [b |-> b, ok |-> TRUE, threw |-> FALSE, result |-> DefaultResult]

\* ---- market data queries (const member functions) ----
best_bid(b) ==
  IF DOMAIN b.bids = {} THEN INVALID_PRICE ELSE BidsRBegin(b.bids)

best_ask(b) ==
  IF DOMAIN b.asks = {} THEN INVALID_PRICE ELSE AsksBegin(b.asks)

\* `ask - bid` is an unsigned difference; C21 checks that it never wraps
spread(b) ==
  IF best_bid(b) = INVALID_PRICE \/ best_ask(b) = INVALID_PRICE
  THEN INVALID_PRICE
  ELSE best_ask(b) - best_bid(b)

volume_at_price(b, side, price) ==
  IF price \notin DOMAIN Levels(b, side) THEN 0
  ELSE Levels(b, side)[price].total_quantity

order_count_at_price(b, side, price) ==
  IF price \notin DOMAIN Levels(b, side) THEN 0
  ELSE Levels(b, side)[price].order_count

total_orders(b) == Cardinality(DOMAIN b.orders)

bid_levels(b) == Cardinality(DOMAIN b.bids)

ask_levels(b) == Cardinality(DOMAIN b.asks)

empty(b) == DOMAIN b.orders = {}

\* the for loop of bid_depth: it is the reverse iterator, count the pairs
\* emitted so far
RECURSIVE bid_depth_from(_, _, _, _)
bid_depth_from(b, it, count, levels) ==
  IF it = EndIt \/ ~(count < levels) THEN << >>
  ELSE <<[price |-> it, quantity |-> b.bids[it].total_quantity]>>
       \o bid_depth_from(b, BidsRNext(b.bids, it), count + 1, levels)

\* a defect of bid_depth: the loop runs while count <= levels
bid_depth_one_more(b, levels) ==
  bid_depth_from(b, BidsRBegin(b.bids), 0, levels + 1)

bid_depth(b, levels) == bid_depth_from(b, BidsRBegin(b.bids), 0, levels)

RECURSIVE ask_depth_from(_, _, _, _)
ask_depth_from(b, it, count, levels) ==
  IF it = EndIt \/ ~(count < levels) THEN << >>
  ELSE <<[price |-> it, quantity |-> b.asks[it].total_quantity]>>
       \o ask_depth_from(b, AsksNext(b.asks, it), count + 1, levels)

ask_depth(b, levels) == ask_depth_from(b, AsksBegin(b.asks), 0, levels)

\* ---- the record of the last public call and of what it returned ----
NoCall ==
  [op |-> "none", side |-> "Buy", type |-> "Limit", price |-> 0,
   quantity |-> 0, order_id |-> 0]

NoRet == [ok |-> FALSE, threw |-> FALSE, result |-> DefaultResult]

\* the step of a public call that returned r
Returns(r) ==
  /\ bids_' = r.b.bids
  /\ asks_' = r.b.asks
  /\ orders_' = r.b.orders
  /\ pool_' = r.b.pool
  /\ next_id_' = r.b.next_id
  /\ timestamp_counter_' = r.b.timestamp_counter
  /\ trade_count_' = r.b.trade_count
  /\ total_volume_' = r.b.total_volume
  /\ trade_callback_' = r.b.trade_callback
  /\ delivered' = r.b.delivered
  /\ ret' = [ok |-> r.ok, threw |-> r.threw, result |-> r.result]

\* ---- OrderBook::OrderBook(pool_capacity) ----
Init ==
  /\ bids_ = EmptyMap
  /\ asks_ = EmptyMap
  /\ orders_ = EmptyMap
  /\ pool_ = OrderPool(PoolCapacity)
  /\ next_id_ = 0
  /\ timestamp_counter_ = 0
  /\ trade_count_ = 0
  /\ total_volume_ = 0
  /\ trade_callback_ = FALSE
  /\ delivered = << >>
  /\ call = NoCall
  /\ ret = NoRet

\* ---- public operations ----
\* Market orders are submitted with price 0, as every caller does.  A call
\* that would issue an id beyond MaxId is left out.
AddOrder ==
  \E side \in SideSet, type \in TypeSet, price \in PriceSet, quantity \in QtySet :
    /\ type = "Market" => price = INVALID_PRICE
    /\ next_id_ < MaxId \/ available(pool_) = 0
    /\ Returns(add_order(Book, side, type, price, quantity))
    /\ call' = [NoCall EXCEPT !.op = "add_order", !.side = side, !.type = type,
                              !.price = price, !.quantity = quantity]

CancelOrder ==
  \E order_id \in IdSet :
    /\ Returns(cancel_order(Book, order_id))
    /\ call' = [NoCall EXCEPT !.op = "cancel_order", !.order_id = order_id]

\* the branch of modify_order that calls add_order
IsIncrease(order_id, new_quantity) ==
  /\ order_id \in DOMAIN orders_
  /\ new_quantity > pool_.orders[orders_[order_id]].quantity

ModifyOrder ==
  \E order_id \in IdSet, new_quantity \in QtySet :
    /\ next_id_ < MaxId \/ ~IsIncrease(order_id, new_quantity)
    /\ Returns(modify_order(Book, order_id, new_quantity))
    /\ call' = [NoCall EXCEPT !.op = "modify_order", !.order_id = order_id,
                              !.quantity = new_quantity]

SetTradeCallback ==
  \E cb \in BOOLEAN :
    /\ trade_callback_' = cb
    /\ delivered' = << >>
    /\ call' = [NoCall EXCEPT !.op = "set_trade_callback"]
    /\ ret' = NoRet
    /\ UNCHANGED <<bids_, asks_, orders_, pool_, next_id_, timestamp_counter_,
                   trade_count_, total_volume_>>

Next == AddOrder \/ CancelOrder \/ ModifyOrder \/ SetTradeCallback

Spec == Init /\ [][Next]_vars

\* ---- a book built on a pool smaller than the number of ids ----
SmallPoolCapacity == 2

\* OrderBook::OrderBook(SmallPoolCapacity)
InitSmallPool ==
  /\ bids_ = EmptyMap
  /\ asks_ = EmptyMap
  /\ orders_ = EmptyMap
  /\ pool_ = OrderPool(SmallPoolCapacity)
  /\ next_id_ = 0
  /\ timestamp_counter_ = 0
  /\ trade_count_ = 0
  /\ total_volume_ = 0
  /\ trade_callback_ = FALSE
  /\ delivered = << >>
  /\ call = NoCall
  /\ ret = NoRet

SpecSmallPool == InitSmallPool /\ [][Next]_vars

\* ---- a book that takes larger orders, with fewer submits ----
WideQty == 3
WideMaxId == 2

AddOrderWide ==
  \E side \in SideSet, type \in TypeSet, price \in PriceSet, quantity \in 0..WideQty :
    /\ type = "Market" => price = INVALID_PRICE
    /\ next_id_ < WideMaxId \/ available(pool_) = 0
    /\ Returns(add_order(Book, side, type, price, quantity))
    /\ call' = [NoCall EXCEPT !.op = "add_order", !.side = side, !.type = type,
                              !.price = price, !.quantity = quantity]

NextWide == AddOrderWide \/ CancelOrder \/ ModifyOrder \/ SetTradeCallback

SpecWide == Init /\ [][NextWide]_vars

\* ---- an OrderPool on its own, driven as the pool tests drive it ----
PoolSlots == 3

\* the slots whose records are handed out: all slots but those on the free stack
live_slots(pool, capacity) ==
  (0..(capacity - 1)) \ {pool.free_stack[i] : i \in 1..Len(pool.free_stack)}

\* what a holder writes into a record it acquired: the fields the test
\* AllocatedOrderIsReset sets, and a record as the book leaves it in a queue
WrittenRecords ==
  {[DefaultOrder EXCEPT !.id = 42, !.price = 1, !.quantity = 2],
   [id |-> 7, price |-> 2, quantity |-> 2, filled_quantity |-> 1,
    side |-> "Sell", type |-> "Market", status |-> "PartiallyFilled",
    prev |-> 0, next |-> 1, timestamp |-> 5]}

\* OrderPool pool(PoolSlots)
InitPool ==
  /\ bids_ = EmptyMap
  /\ asks_ = EmptyMap
  /\ orders_ = EmptyMap
  /\ pool_ = OrderPool(PoolSlots)
  /\ next_id_ = 0
  /\ timestamp_counter_ = 0
  /\ trade_count_ = 0
  /\ total_volume_ = 0
  /\ trade_callback_ = FALSE
  /\ delivered = << >>
  /\ call = NoCall
  /\ ret = NoRet

\* pool.allocate(): throws on an empty free stack, else returns the record
\* of the slot on top of it (ret.result.order_id holds that slot)
PoolAllocate ==
  /\ IF available(pool_) = 0
     THEN /\ pool_' = pool_
          /\ ret' = [NoRet EXCEPT !.threw = TRUE]
     ELSE /\ pool_' = allocate(pool_)
          /\ ret' = [NoRet EXCEPT !.ok = TRUE,
                                  !.result.order_id = allocate_slot(pool_)]
  /\ call' = [NoCall EXCEPT !.op = "allocate"]
  /\ UNCHANGED <<bids_, asks_, orders_, next_id_, timestamp_counter_,
                 trade_count_, total_volume_, trade_callback_, delivered>>

\* the holder of a live record assigns its fields
PoolWrite ==
  \E slot \in live_slots(pool_, PoolSlots), v \in WrittenRecords :
    /\ slot \in DOMAIN pool_.orders
    /\ pool_' = [pool_ EXCEPT !.orders[slot] = v]
    /\ call' = [NoCall EXCEPT !.op = "write", !.order_id = slot]
    /\ ret' = NoRet
    /\ UNCHANGED <<bids_, asks_, orders_, next_id_, timestamp_counter_,
                   trade_count_, total_volume_, trade_callback_, delivered>>

\* pool.deallocate(o) of a live record o.  deallocate does not touch the
\* record's storage, so what the holder wrote stays in the slot.
PoolDeallocate ==
  \E slot \in live_slots(pool_, PoolSlots) :
    /\ pool_' = [deallocate(pool_, slot) EXCEPT !.orders = pool_.orders]
    /\ call' = [NoCall EXCEPT !.op = "deallocate", !.order_id = slot]
    /\ ret' = NoRet
    /\ UNCHANGED <<bids_, asks_, orders_, next_id_, timestamp_counter_,
                   trade_count_, total_volume_, trade_callback_, delivered>>

NextPool == PoolAllocate \/ PoolWrite \/ PoolDeallocate

SpecPool == InitPool /\ [][NextPool]_vars

(***************************************************************************)
(* Verification conditions.  A step of the book is a pair (state before   *)
(* the call, state after it); `call` and `ret` of the state after it name  *)
(* the call and what it returned.                                          *)
(***************************************************************************)

\* a submit that returned (did not throw)
AddStep == call'.op = "add_order" /\ ret'.ok

Opposite(side) == IF side = "Buy" THEN "Sell" ELSE "Buy"

\* the resting order with the given id in book b
OrderOf(b, id) == b.pool.orders[b.orders[id]]

\* the passive party of a trade of an aggressor on `side`
PassiveId(t, side) == IF side = "Buy" THEN t.sell_order_id ELSE t.buy_order_id

\* quantity traded in trades[1 .. k-1]
RECURSIVE FillBefore(_, _)
FillBefore(trades, k) ==
  IF k <= 1 THEN 0 ELSE trades[k - 1].quantity + FillBefore(trades, k - 1)

\* quantity traded against passive order pid in trades[1 .. k-1]
RECURSIVE PassiveFillBefore(_, _, _, _)
PassiveFillBefore(trades, side, pid, k) ==
  IF k <= 1 THEN 0
  ELSE (IF PassiveId(trades[k - 1], side) = pid THEN trades[k - 1].quantity ELSE 0)
       + PassiveFillBefore(trades, side, pid, k - 1)

\* the ids queued at a level, head to tail, following the next links
RECURSIVE WalkIds(_, _)
WalkIds(po, slot) ==
  IF slot = nullptr THEN << >> ELSE <<po[slot].id>> \o WalkIds(po, po[slot].next)

QueueIds(b, side, price) == WalkIds(b.pool.orders, Levels(b, side)[price].head)

\* the ids resting at (side, price) according to the order index
RestingAt(b, side, price) ==
  {e \in DOMAIN b.orders : OrderOf(b, e).side = side /\ OrderOf(b, e).price = price}

\* ---- C1 ----
\* Time priority within a level: in every submit, a resting order takes part
\* in trade k only if every order that rested at the same side and price
\* with an earlier timestamp at the start of the submit has been filled
\* completely by the trades before k.
C1_Step ==
  AddStep =>
    \A k \in 1..Len(ret'.result.trades) :
      LET pid == PassiveId(ret'.result.trades[k], call'.side) IN
      /\ pid \in DOMAIN orders_
      /\ \A e \in DOMAIN orders_ :
           ( /\ OrderOf(Book, e).side = OrderOf(Book, pid).side
             /\ OrderOf(Book, e).price = OrderOf(Book, pid).price
             /\ OrderOf(Book, e).timestamp < OrderOf(Book, pid).timestamp )
           => PassiveFillBefore(ret'.result.trades, call'.side, e, k)
                = remaining(OrderOf(Book, e))

C1_TimePriority == [][C1_Step]_vars

\* a buy filled the older ask of a level and then part of the younger one
C1_Witness ==
  /\ call.op = "add_order" /\ call.side = "Buy"
  /\ Len(ret.result.trades) = 2
  /\ ret.result.trades[1].price = ret.result.trades[2].price
  /\ ret.result.trades[1].sell_order_id < ret.result.trades[2].sell_order_id
  /\ ret.result.trades[2].sell_order_id \in DOMAIN orders_

\* ---- C2 ----
\* Price priority across levels: the trade prices of one submit are
\* non-decreasing for a buy and non-increasing for a sell, and when trade k
\* happens every strictly better opposite level has had all its orders
\* filled by the trades before k and is gone from the map afterwards.
Better(side, p, q) == IF side = "Buy" THEN p < q ELSE p > q

C2_Step ==
  AddStep =>
    LET tr == ret'.result.trades
        s == call'.side
    IN  /\ \A k \in 1..(Len(tr) - 1) : ~Better(s, tr[k + 1].price, tr[k].price)
        /\ \A k \in 1..Len(tr) :
             \A p \in DOMAIN Levels(Book, Opposite(s)) :
               Better(s, p, tr[k].price) =>
                 /\ \A e \in RestingAt(Book, Opposite(s), p) :
                      PassiveFillBefore(tr, s, e, k) = remaining(OrderOf(Book, e))
                 /\ p \notin DOMAIN Levels(Book', Opposite(s))

C2_PricePriority == [][C2_Step]_vars

\* a sell swept two bid levels, the higher one first
C2_Witness ==
  /\ call.op = "add_order" /\ call.side = "Sell"
  /\ Len(ret.result.trades) = 2
  /\ ret.result.trades[1].price > ret.result.trades[2].price

\* ---- C3 ----
\* Every trade of a submit carries the price the passive order rested at,
\* whatever the aggressor's side, type and own price.
C3_Step ==
  AddStep =>
    \A k \in 1..Len(ret'.result.trades) :
      LET pid == PassiveId(ret'.result.trades[k], call'.side) IN
      /\ pid \in DOMAIN orders_
      /\ ret'.result.trades[k].price = OrderOf(Book, pid).price

C3_PassivePrice == [][C3_Step]_vars

\* a limit order traded at a price different from its own limit
C3_Witness ==
  /\ call.op = "add_order" /\ call.type = "Limit"
  /\ Len(ret.result.trades) > 0
  /\ ret.result.trades[1].price # call.price

\* ---- C4 ----
\* Limit protection: a limit buy at price P trades at no price above P and
\* a limit sell at price P at no price below P; when the best opposite
\* level is already beyond the limit at the start of the submit, nothing
\* trades and the opposite side is left as it was.
BestOpposite(b, side) ==
  IF side = "Buy" THEN MinOf(DOMAIN b.asks) ELSE MaxOf(DOMAIN b.bids)

C4_Step ==
  (AddStep /\ call'.type = "Limit") =>
    LET tr == ret'.result.trades
        s == call'.side
        P == call'.price
    IN  /\ \A k \in 1..Len(tr) : ~Better(s, P, tr[k].price)
        /\ ( /\ DOMAIN Levels(Book, Opposite(s)) # {}
             /\ Better(s, P, BestOpposite(Book, s)) )
           => /\ tr = << >>
              /\ Levels(Book', Opposite(s)) = Levels(Book, Opposite(s))

C4_LimitProtection == [][C4_Step]_vars

\* a limit buy traded, then stopped at an ask above its limit and rested
C4_Witness ==
  /\ call.op = "add_order" /\ call.type = "Limit" /\ call.side = "Buy"
  /\ Len(ret.result.trades) > 0
  /\ ret.result.status = "PartiallyFilled"
  /\ DOMAIN asks_ # {}
  /\ MinOf(DOMAIN asks_) > call.price

\* ---- C5 ----
\* The book is never crossed: whenever both sides hold a level, the greatest
\* bid price is strictly below the least ask price.
C5_NotCrossed ==
  (DOMAIN bids_ # {} /\ DOMAIN asks_ # {}) =>
    MaxOf(DOMAIN bids_) < MinOf(DOMAIN asks_)

\* a submit traded and left both sides of the book populated
C5_Witness ==
  /\ call.op = "add_order"
  /\ Len(ret.result.trades) > 0
  /\ DOMAIN bids_ # {}
  /\ DOMAIN asks_ # {}

\* ---- C6 ----
\* Final status of a submit: Filled when the whole quantity traded; a limit
\* order with a residual is PartiallyFilled after at least one trade and
\* Active after none, and then rests (it is in the index and queued at its
\* price on its side); a market order with a residual is Cancelled.
C6_FinalStatus ==
  (call.op = "add_order" /\ ret.ok) =>
    LET r == ret.result
        traded == FillBefore(r.trades, Len(r.trades) + 1)
    IN  /\ traded = call.quantity => r.status = "Filled"
        /\ (call.type = "Limit" /\ traded < call.quantity) =>
             /\ r.status = (IF Len(r.trades) > 0 THEN "PartiallyFilled" ELSE "Active")
             /\ r.order_id \in DOMAIN orders_
             /\ call.price \in DOMAIN Levels(Book, call.side)
             /\ LET q == QueueIds(Book, call.side, call.price)
                IN  \E i \in 1..Len(q) : q[i] = r.order_id
        /\ (call.type = "Market" /\ traded < call.quantity) =>
             r.status = "Cancelled"

\* a limit order traded part of its quantity and rests with the remainder
C6_Witness ==
  /\ call.op = "add_order" /\ call.type = "Limit"
  /\ ret.result.status = "PartiallyFilled"
  /\ ret.result.order_id \in DOMAIN orders_
  /\ ret.result.remaining_quantity > 0

\* ---- C7 ----
\* Market orders never rest.  After every step no market order is in the
\* index or queued at a level, and a market submit raises neither the number
\* of resting orders nor the number of bid or ask levels.
MarketNeverRests(index, po, bids, asks) ==
  /\ \A id \in DOMAIN index : po[index[id]].type = "Limit"
  /\ \A p \in DOMAIN bids :
       LET q == WalkIds(po, bids[p].head)
       IN  \A i \in 1..Len(q) : q[i] \in DOMAIN index
  /\ \A p \in DOMAIN asks :
       LET q == WalkIds(po, asks[p].head)
       IN  \A i \in 1..Len(q) : q[i] \in DOMAIN index

MarketStepCounts ==
  (AddStep /\ call'.type = "Market") =>
    /\ Cardinality(DOMAIN orders_') <= Cardinality(DOMAIN orders_)
    /\ Cardinality(DOMAIN bids_') <= Cardinality(DOMAIN bids_)
    /\ Cardinality(DOMAIN asks_') <= Cardinality(DOMAIN asks_)

\* a market order into an empty opposite side
MarketIntoEmpty ==
  /\ AddStep
  /\ call'.type = "Market"
  /\ DOMAIN Levels(Book, Opposite(call'.side)) = {}

CancelledUntouched ==
  /\ ret'.result.status = "Cancelled"
  /\ ret'.result.filled_quantity = 0
  /\ ret'.result.remaining_quantity = call'.quantity
  /\ ret'.result.trades = << >>

\* The claim as stated: every market order into an empty opposite side
\* returns Cancelled with filled 0, remaining equal to its quantity and no
\* trades.
C7_Original_Step ==
  /\ MarketNeverRests(orders_', pool_'.orders, bids_', asks_')
  /\ MarketStepCounts
  /\ MarketIntoEmpty => CancelledUntouched

C7_Original == [][C7_Original_Step]_vars

\* What add_order does for C7's case: a market order of positive quantity
\* into an empty opposite side returns Cancelled with filled 0, remaining
\* equal to its quantity and no trades, while a market order of quantity 0
\* is_filled() at once and returns Filled.
C7_Step ==
  /\ MarketNeverRests(orders_', pool_'.orders, bids_', asks_')
  /\ MarketStepCounts
  /\ (MarketIntoEmpty /\ call'.quantity > 0) => CancelledUntouched
  /\ (MarketIntoEmpty /\ call'.quantity = 0) =>
       /\ ret'.result.status = "Filled"
       /\ ret'.result.filled_quantity = 0
       /\ ret'.result.remaining_quantity = 0
       /\ ret'.result.trades = << >>

C7_MarketNeverRests == [][C7_Step]_vars

\* a market order of positive quantity found nothing to trade with
C7_Witness ==
  /\ call.op = "add_order" /\ call.type = "Market"
  /\ call.quantity > 0
  /\ ret.result.status = "Cancelled"
  /\ ret.result.trades = << >>
  /\ ret.result.remaining_quantity = call.quantity

\* ---- C8 ----
\* Result accounting of a submit of quantity q: filled + remaining = q,
\* filled is the sum of the trade quantities, and every trade quantity is at
\* least 1 and is the minimum of what the aggressor and the passive order
\* had left when the trade was made.
Least(a, b) == IF a <= b THEN a ELSE b

C8_Step ==
  AddStep =>
    LET r == ret'.result
        tr == ret'.result.trades
        s == call'.side
    IN  /\ r.filled_quantity + r.remaining_quantity = call'.quantity
        /\ r.filled_quantity = FillBefore(tr, Len(tr) + 1)
        /\ \A k \in 1..Len(tr) :
             LET pid == PassiveId(tr[k], s) IN
             /\ tr[k].quantity >= 1
             /\ pid \in DOMAIN orders_
             /\ tr[k].quantity =
                  Least(call'.quantity - FillBefore(tr, k),
                        remaining(OrderOf(Book, pid))
                          - PassiveFillBefore(tr, s, pid, k))

C8_Accounting == [][C8_Step]_vars

\* a market order took all a smaller passive order had; its rest was dropped
C8_Witness ==
  /\ call.op = "add_order" /\ call.type = "Market"
  /\ Len(ret.result.trades) = 1
  /\ ret.result.filled_quantity = 1
  /\ ret.result.remaining_quantity = 1
  /\ ret.result.status = "Cancelled"

\* ---- C9 ----
\* Cancel of a resting order returns true, takes exactly that order out of
\* the index and of its level queue, erases the level if that empties it,
\* lowers the number of resting orders by one and leaves every other
\* resting order (its fields and its place among the others), every other
\* level and the trade counters as they were.
RECURSIVE Without(_, _)
Without(q, id) ==
  IF q = << >> THEN << >>
  ELSE IF Head(q) = id THEN Without(Tail(q), id)
  ELSE <<Head(q)>> \o Without(Tail(q), id)

\* the fields of a resting order other than its queue links
Fields(o) ==
  [id |-> o.id, price |-> o.price, quantity |-> o.quantity,
   filled_quantity |-> o.filled_quantity, side |-> o.side, type |-> o.type,
   status |-> o.status, timestamp |-> o.timestamp]

CancelFrame(side) ==
  LET id == call'.order_id
      kept == {p \in DOMAIN Levels(Book, side) :
                 Without(QueueIds(Book, side, p), id) # << >>}
  IN  /\ DOMAIN Levels(Book', side) = kept
      /\ \A p \in kept :
           QueueIds(Book', side, p) = Without(QueueIds(Book, side, p), id)

C9_Step ==
  (call'.op = "cancel_order" /\ call'.order_id \in DOMAIN orders_) =>
    /\ ret'.ok
    /\ DOMAIN orders_' = (DOMAIN orders_) \ {call'.order_id}
    /\ Cardinality(DOMAIN orders_') = Cardinality(DOMAIN orders_) - 1
    /\ CancelFrame("Buy")
    /\ CancelFrame("Sell")
    /\ \A e \in DOMAIN orders_' : Fields(OrderOf(Book', e)) = Fields(OrderOf(Book, e))
    /\ trade_count_' = trade_count_
    /\ total_volume_' = total_volume_

C9_CancelFrame == [][C9_Step]_vars

\* a cancel succeeded and left other orders resting
C9_Witness ==
  /\ call.op = "cancel_order"
  /\ ret.ok
  /\ DOMAIN orders_ # {}

\* ---- C10 ----
\* Unknown order: cancel and modify of an id that is not resting return
\* false and leave levels, queues, index, pool and all counters unchanged.
C10_Step ==
  ( /\ call'.op \in {"cancel_order", "modify_order"}
    /\ call'.order_id \notin DOMAIN orders_ )
  => /\ ~ret'.ok
     /\ ~ret'.threw
     /\ UNCHANGED <<bids_, asks_, orders_, pool_, next_id_, timestamp_counter_,
                    trade_count_, total_volume_>>

C10_UnknownOrder == [][C10_Step]_vars

\* a cancel or modify of an id that was issued but no longer rests failed
C10_Witness ==
  /\ call.op \in {"cancel_order", "modify_order"}
  /\ ~ret.ok
  /\ call.order_id \in 1..next_id_
  /\ call.order_id \notin DOMAIN orders_

\* ---- C11 ----
\* Modify-reduce keeps time priority: modify(id, q) of a resting order with
\* filled < q < total returns true, leaves the order under the same id in
\* the same slot with the same queue links, timestamp and status, sets its
\* total quantity to q, lowers the cached quantity of its level by
\* (old total - q), and changes no other order, level, count or counter.
IsReduce(order_id, new_quantity) ==
  /\ order_id \in DOMAIN orders_
  /\ OrderOf(Book, order_id).filled_quantity < new_quantity
  /\ new_quantity < OrderOf(Book, order_id).quantity

\* the side map `side` after the reduction of order o to quantity q
ReducedLevels(side, o, q) ==
  IF side = o.side
  THEN [Levels(Book, side) EXCEPT ![o.price].total_quantity = @ - (o.quantity - q)]
  ELSE Levels(Book, side)

C11_Step ==
  (call'.op = "modify_order" /\ IsReduce(call'.order_id, call'.quantity)) =>
    LET id == call'.order_id
        o == OrderOf(Book, id)
    IN  /\ ret'.ok
        /\ orders_' = orders_
        /\ DOMAIN pool_'.orders = DOMAIN pool_.orders
        /\ pool_'.orders[orders_[id]] = [o EXCEPT !.quantity = call'.quantity]
        /\ \A s \in (DOMAIN pool_.orders) \ {orders_[id]} :
             pool_'.orders[s] = pool_.orders[s]
        /\ pool_'.free_stack = pool_.free_stack
        /\ pool_'.size = pool_.size
        /\ bids_' = ReducedLevels("Buy", o, call'.quantity)
        /\ asks_' = ReducedLevels("Sell", o, call'.quantity)
        /\ QueueIds(Book', o.side, o.price) = QueueIds(Book, o.side, o.price)
        /\ UNCHANGED <<next_id_, timestamp_counter_, trade_count_, total_volume_>>

C11_ModifyReduce == [][C11_Step]_vars

\* an order was reduced in place while another order queues behind it
C11_Witness ==
  /\ call.op = "modify_order"
  /\ ret.ok
  /\ call.order_id \in DOMAIN orders_
  /\ OrderOf(Book, call.order_id).quantity = call.quantity
  /\ OrderOf(Book, call.order_id).next # nullptr
  /\ Levels(Book, OrderOf(Book, call.order_id).side)
       [OrderOf(Book, call.order_id).price].total_quantity
     = call.quantity + 1

\* ---- C12 ----
\* Modify-up loses time priority: modify(id, q) of a resting order with
\* q > total returns true; afterwards id is out of the index and a new limit
\* order with the next id (greater than every id issued so far), the next
\* timestamp, the same side and price, quantity q and nothing filled is the
\* tail of the queue at that price, behind the orders that rested there.
C12_Step ==
  (call'.op = "modify_order" /\ IsIncrease(call'.order_id, call'.quantity)) =>
    LET id == call'.order_id
        o == OrderOf(Book, id)
        nid == next_id_ + 1
    IN  /\ ret'.ok
        /\ id \notin DOMAIN orders_'
        /\ next_id_' = nid
        /\ \A e \in DOMAIN orders_ : e < nid
        /\ DOMAIN orders_' = ((DOMAIN orders_) \ {id}) \cup {nid}
        /\ Fields(OrderOf(Book', nid)) =
             [id |-> nid, price |-> o.price, quantity |-> call'.quantity,
              filled_quantity |-> 0, side |-> o.side, type |-> "Limit",
              status |-> "Active", timestamp |-> timestamp_counter_ + 1]
        /\ timestamp_counter_' = timestamp_counter_ + 1
        /\ \A e \in DOMAIN orders_ : OrderOf(Book, e).timestamp <= timestamp_counter_
        /\ o.price \in DOMAIN Levels(Book', o.side)
        /\ QueueIds(Book', o.side, o.price) =
             Without(QueueIds(Book, o.side, o.price), id) \o <<nid>>
        /\ Levels(Book', o.side)[o.price].tail = orders_'[nid]
        /\ OrderOf(Book', nid).next = nullptr

C12_ModifyUp == [][C12_Step]_vars

\* an order that had another one queued behind it was increased and is now
\* behind that one
C12_Witness ==
  /\ call.op = "modify_order"
  /\ ret.ok
  /\ call.order_id \notin DOMAIN orders_
  /\ next_id_ \in DOMAIN orders_
  /\ OrderOf(Book, next_id_).quantity = call.quantity
  /\ OrderOf(Book, next_id_).prev # nullptr
  /\ OrderOf(Book, next_id_).id > pool_.orders[OrderOf(Book, next_id_).prev].id
  /\ call.order_id < pool_.orders[OrderOf(Book, next_id_).prev].id

\* ---- C13 ----
\* Modify to at most the filled quantity is a cancel: modify(id, q) of a
\* resting order with q <= filled (q = 0 included) returns true and leaves
\* the book in the state cancel(id) produces from the same starting state.
IsCancelQuantity(order_id, new_quantity) ==
  /\ order_id \in DOMAIN orders_
  /\ new_quantity <= OrderOf(Book, order_id).filled_quantity

C13_Step ==
  (call'.op = "modify_order" /\ IsCancelQuantity(call'.order_id, call'.quantity)) =>
    /\ ret'.ok
    /\ ~ret'.threw
    /\ cancel_order(Book, call'.order_id).ok
    /\ bids_' = cancel_order(Book, call'.order_id).b.bids
    /\ asks_' = cancel_order(Book, call'.order_id).b.asks
    /\ orders_' = cancel_order(Book, call'.order_id).b.orders
    /\ pool_' = cancel_order(Book, call'.order_id).b.pool
    /\ next_id_' = cancel_order(Book, call'.order_id).b.next_id
    /\ timestamp_counter_' = cancel_order(Book, call'.order_id).b.timestamp_counter
    /\ trade_count_' = cancel_order(Book, call'.order_id).b.trade_count
    /\ total_volume_' = cancel_order(Book, call'.order_id).b.total_volume
    /\ trade_callback_' = trade_callback_
    /\ call'.order_id \notin DOMAIN orders_'
    /\ CancelFrame("Buy")
    /\ CancelFrame("Sell")

C13_ModifyIsCancel == [][C13_Step]_vars

\* a partially filled order was modified to a positive quantity that does
\* not exceed what it had filled, and is gone
C13_Witness ==
  /\ call.op = "modify_order"
  /\ call.quantity > 0
  /\ ret.ok
  /\ call.order_id \in 1..next_id_
  /\ call.order_id \notin DOMAIN orders_
  /\ next_id_ \notin DOMAIN orders_
  /\ trade_count_ > 0
  /\ pool_.size = 0
  /\ total_volume_ = 1
  /\ next_id_ = 2

\* ---- C14 ----
\* Pool exhaustion leaves the book untouched: a submit while the pool has no
\* free slot throws, produces no trade and no callback invocation, and
\* leaves levels, queues, index, pool, next id, timestamp counter, trade
\* count and total volume as they were; every submit that returns gets the
\* id after the last one issued, so a failed submit costs no id.
C14_Step ==
  /\ (call'.op = "add_order" /\ pool_.free_stack = << >>) =>
       /\ ret'.threw
       /\ ~ret'.ok
       /\ ret'.result.trades = << >>
       /\ delivered' = << >>
       /\ UNCHANGED <<bids_, asks_, orders_, pool_, next_id_, timestamp_counter_,
                      trade_count_, total_volume_, trade_callback_>>
  /\ (call'.op = "add_order" /\ pool_.free_stack # << >>) =>
       /\ ret'.ok
       /\ ~ret'.threw
       /\ ret'.result.order_id = next_id_ + 1

C14_PoolExhausted == [][C14_Step]_vars

\* a market buy that had asks to trade with and a callback to report to
\* failed on the full pool, with ids still to issue
C14_Witness ==
  /\ call.op = "add_order"
  /\ ret.threw
  /\ call.side = "Buy"
  /\ call.type = "Market"
  /\ call.quantity > 0
  /\ DOMAIN asks_ # {}
  /\ trade_callback_
  /\ next_id_ < MaxId

\* ---- C15 ----
\* Order ids: next_id_ never decreases and bounds every id issued so far;
\* every submit that returns, whatever its outcome, returns a nonzero id
\* above next_id_ as it was before the call and not above next_id_ as it is
\* after, hence above every id returned earlier, with cancels and modifies
\* (modify-up draws an id itself) in between.
C15_Step ==
  /\ next_id_' >= next_id_
  /\ \A e \in DOMAIN orders_' : e <= next_id_'
  /\ AddStep =>
       /\ ret'.result.order_id # 0
       /\ ret'.result.order_id > next_id_
       /\ ret'.result.order_id <= next_id_'
  /\ (call'.op = "modify_order" /\ IsIncrease(call'.order_id, call'.quantity)) =>
       next_id_' > next_id_

C15_OrderIds == [][C15_Step]_vars

\* a market order that found nothing to trade with and was cancelled got
\* the third id, while the order that holds the second id rests
C15_Witness ==
  /\ call.op = "add_order"
  /\ call.type = "Market"
  /\ ret.ok
  /\ ret.result.status = "Cancelled"
  /\ ret.result.order_id = 3
  /\ DOMAIN orders_ = {2}
  /\ OrderOf(Book, 2).timestamp = 2
  /\ trade_count_ = 0

\* ---- C16 ----
\* The claim as stated: a submit of a limit order with quantity 0 rests as
\* an Active order with remaining 0: the result status is Active, the order
\* is in the index and linked into the level of its price, and the number
\* of resting orders grows by one.
C16_Original_Step ==
  (AddStep /\ call'.type = "Limit" /\ call'.quantity = 0) =>
    /\ ret'.result.status = "Active"
    /\ ret'.result.remaining_quantity = 0
    /\ ret'.result.order_id \in DOMAIN orders_'
    /\ call'.price \in DOMAIN Levels(Book', call'.side)
    /\ \E i \in 1..Len(QueueIds(Book', call'.side, call'.price)) :
         QueueIds(Book', call'.side, call'.price)[i] = ret'.result.order_id
    /\ Cardinality(DOMAIN orders_') = Cardinality(DOMAIN orders_) + 1

C16_Original == [][C16_Original_Step]_vars

\* What add_order does with a limit order of quantity 0: the order
\* is_filled() at once, so the result is Filled with nothing filled and
\* nothing remaining, no trade is made, the record goes back to the pool
\* and neither the index nor any level changes.
C16_Step ==
  (AddStep /\ call'.type = "Limit" /\ call'.quantity = 0) =>
    /\ ret'.result.status = "Filled"
    /\ ret'.result.filled_quantity = 0
    /\ ret'.result.remaining_quantity = 0
    /\ ret'.result.trades = << >>
    /\ UNCHANGED <<bids_, asks_, orders_, pool_, trade_count_, total_volume_>>

C16_ZeroQuantityLimit == [][C16_Step]_vars

\* a limit order of quantity 0 was submitted at a price that crosses a
\* resting order
C16_Witness ==
  /\ call.op = "add_order"
  /\ call.type = "Limit"
  /\ call.quantity = 0
  /\ ret.ok
  /\ call.side = "Buy"
  /\ DOMAIN asks_ # {}
  /\ \E p \in DOMAIN asks_ : p <= call.price

\* ---- C17 ----
\* The claim as stated: a limit order with price 0 and positive quantity,
\* buy or sell, produces no trade whatever rests on the opposite side, and
\* rests as Active.
C17_Original_Step ==
  (AddStep /\ call'.type = "Limit" /\ call'.price = 0 /\ call'.quantity > 0) =>
    /\ ret'.result.trades = << >>
    /\ ret'.result.status = "Active"
    /\ ret'.result.order_id \in DOMAIN orders_'

C17_Original == [][C17_Original_Step]_vars

\* What the limit checks do with price 0: `it->first < 0` is never true, so
\* a limit sell at 0 trades with every bid, best first, until it is filled
\* or the bids are gone; `it->first > 0` stops a limit buy at 0 at every ask
\* priced above 0, so it trades only with asks resting at price 0.
C17_Step ==
  (AddStep /\ call'.type = "Limit" /\ call'.price = 0 /\ call'.quantity > 0) =>
    /\ (call'.side = "Sell" /\ DOMAIN bids_ # {}) => ret'.result.trades # << >>
    /\ (call'.side = "Sell" /\ ret'.result.remaining_quantity > 0) => DOMAIN bids_' = {}
    /\ call'.side = "Buy" =>
         \A k \in 1..Len(ret'.result.trades) : ret'.result.trades[k].price = 0
    /\ (call'.side = "Buy" /\ 0 \notin DOMAIN asks_) =>
         /\ ret'.result.trades = << >>
         /\ ret'.result.status = "Active"
    /\ (call'.side = "Buy" /\ 0 \in DOMAIN asks_) => ret'.result.trades # << >>

C17_PriceZeroLimit == [][C17_Step]_vars

\* a limit sell at price 0 traded with a bid resting at a positive price
C17_Witness ==
  /\ call.op = "add_order"
  /\ call.type = "Limit"
  /\ call.side = "Sell"
  /\ call.price = 0
  /\ ret.ok
  /\ ret.result.trades # << >>
  /\ ret.result.trades[1].price > 0

\* ---- C18 ----
\* Trade callback delivery: `delivered` is the sequence of trades the
\* callback was invoked with during the last public call.  With a callback
\* installed, a submit delivers exactly its result.trades, in that order and
\* with the same fields, before it returns; cancel, modify-reduce and
\* modify-to-cancel deliver nothing.  Without a callback nothing is
\* delivered.
C18_Step ==
  /\ (AddStep /\ trade_callback_) => delivered' = ret'.result.trades
  /\ (AddStep /\ ~trade_callback_) => delivered' = << >>
  /\ call'.op = "cancel_order" => delivered' = << >>
  /\ (call'.op = "modify_order" /\ ~IsIncrease(call'.order_id, call'.quantity)) =>
       delivered' = << >>
  /\ call'.op \in {"add_order", "cancel_order", "modify_order"} =>
       trade_callback_' = trade_callback_

C18_TradeCallback == [][C18_Step]_vars

\* a submit made two trades and the callback saw both, in order
C18_Witness ==
  /\ call.op = "add_order"
  /\ ret.ok
  /\ trade_callback_
  /\ Len(ret.result.trades) = 2
  /\ delivered = ret.result.trades
  /\ ret.result.trades[1] # ret.result.trades[2]

\* ---- C19 ----
\* Submit-then-cancel round trip: in every reachable state, a limit submit
\* that returns without a trade, followed by cancel of the id it returned,
\* gives back both side maps with every queue and cached aggregate, the
\* index, the pool (live size, free stack and records), the trade count and
\* the total volume of the state before the submit; next id and timestamp
\* counter are each one higher.  The cancel returns true when the order
\* rested.
RoundTrip(a) ==
  LET c == cancel_order(a.b, a.result.order_id)
  IN  /\ a.result.order_id \in DOMAIN a.b.orders => c.ok
      /\ c.b.bids = bids_
      /\ c.b.asks = asks_
      /\ c.b.orders = orders_
      /\ c.b.pool.size = pool_.size
      /\ c.b.pool = pool_
      /\ c.b.trade_count = trade_count_
      /\ c.b.total_volume = total_volume_
      /\ c.b.next_id = next_id_ + 1
      /\ c.b.timestamp_counter = timestamp_counter_ + 1

C19_RoundTrip ==
  \A side \in SideSet, price \in PriceSet, quantity \in QtySet :
    LET a == add_order(Book, side, "Limit", price, quantity)
    IN  (a.ok /\ a.result.trades = << >>) => RoundTrip(a)

\* the order issued last was cancelled while other orders rest on both
\* sides of the book
C19_Witness ==
  /\ call.op = "cancel_order"
  /\ ret.ok
  /\ call.order_id = next_id_
  /\ DOMAIN bids_ # {}
  /\ DOMAIN asks_ # {}
  /\ pool_.free_stack # << >>

\* ---- C20 ----
\* Modify-reduce composes: in every reachable state, for a resting order and
\* quantities with filled < q2 < q1 < total, modify(id, q1) followed by
\* modify(id, q2) returns true twice and leaves the book modify(id, q2)
\* alone leaves.
ReduceTwice(id, q1, q2) ==
  LET m1 == modify_order(Book, id, q1)
      m12 == modify_order(m1.b, id, q2)
      m2 == modify_order(Book, id, q2)
  IN  /\ m1.ok
      /\ m12.ok
      /\ m2.ok
      /\ m12.b = m2.b
      /\ m2.b.pool.orders[orders_[id]].quantity = q2

C20_ReduceComposes ==
  \A id \in DOMAIN orders_ :
    \A q1 \in 0..WideQty, q2 \in 0..WideQty :
      ( /\ OrderOf(Book, id).filled_quantity < q2
        /\ q2 < q1
        /\ q1 < OrderOf(Book, id).quantity )
      => ReduceTwice(id, q1, q2)

\* an order with three units left, none filled, heads a queue of two
C20_Witness ==
  \E id \in DOMAIN orders_ :
    /\ OrderOf(Book, id).filled_quantity = 0
    /\ OrderOf(Book, id).quantity = 3
    /\ OrderOf(Book, id).next # nullptr
    /\ OrderOf(Book, id).prev = nullptr

\* ---- C21 ----
\* the prices at which orders of a side rest, according to the order index
RestingPrices(b, side) ==
  {OrderOf(b, e).price : e \in {x \in DOMAIN b.orders : OrderOf(b, x).side = side}}

BestPricesExact(b) ==
  /\ best_bid(b) = IF RestingPrices(b, "Buy") = {} THEN INVALID_PRICE
                   ELSE MaxOf(RestingPrices(b, "Buy"))
  /\ best_ask(b) = IF RestingPrices(b, "Sell") = {} THEN INVALID_PRICE
                   ELSE MinOf(RestingPrices(b, "Sell"))

\* after a submit whose trades emptied the best opposite level, the best of
\* the levels that are left is the new best
NextBestBecomesBest ==
  (AddStep /\ ret'.result.trades # << >>) =>
    /\ call'.side = "Buy" =>
         /\ DOMAIN asks_' \subseteq DOMAIN asks_
         /\ \A gone \in (DOMAIN asks_) \ (DOMAIN asks_'), left \in DOMAIN asks_' :
              gone < left
         /\ best_ask(Book') = IF DOMAIN asks_' = {} THEN INVALID_PRICE
                              ELSE MinOf(DOMAIN asks_')
    /\ call'.side = "Sell" =>
         /\ DOMAIN bids_' \subseteq DOMAIN bids_
         /\ \A gone \in (DOMAIN bids_) \ (DOMAIN bids_'), left \in DOMAIN bids_' :
              gone > left
         /\ best_bid(Book') = IF DOMAIN bids_' = {} THEN INVALID_PRICE
                              ELSE MaxOf(DOMAIN bids_')

\* The claim as stated: best_bid is the greatest resting buy price, best_ask
\* the least resting sell price, each INVALID_PRICE on an empty side;
\* spread is best_ask - best_bid when both sides are non-empty and
\* INVALID_PRICE when either is empty; when a trade empties the best level
\* the next-best level becomes the best.
C21_Original_Step ==
  /\ BestPricesExact(Book')
  /\ (DOMAIN bids_' # {} /\ DOMAIN asks_' # {}) =>
       spread(Book') = MinOf(DOMAIN asks_') - MaxOf(DOMAIN bids_')
  /\ (DOMAIN bids_' = {} \/ DOMAIN asks_' = {}) => spread(Book') = INVALID_PRICE
  /\ NextBestBecomesBest

C21_Original == [][C21_Original_Step]_vars

\* What the queries do: as claimed, except that spread() takes a best bid
\* of 0 for an empty bid side: with a bid resting at price 0 and an ask
\* resting above it, spread() is INVALID_PRICE and not the difference.  The
\* difference never wraps, the best ask being above the best bid.
C21_Step ==
  /\ BestPricesExact(Book')
  /\ (DOMAIN bids_' # {} /\ DOMAIN asks_' # {}) =>
       /\ MinOf(DOMAIN asks_') > MaxOf(DOMAIN bids_')
       /\ MaxOf(DOMAIN bids_') # 0 =>
            spread(Book') = MinOf(DOMAIN asks_') - MaxOf(DOMAIN bids_')
       /\ MaxOf(DOMAIN bids_') = 0 => spread(Book') = INVALID_PRICE
  /\ (DOMAIN bids_' = {} \/ DOMAIN asks_' = {}) => spread(Book') = INVALID_PRICE
  /\ NextBestBecomesBest

C21_BestPrices == [][C21_Step]_vars

\* a sell emptied the best bid level and a lower bid level is now the best,
\* with asks resting
C21_Witness ==
  /\ call.op = "add_order"
  /\ call.side = "Sell"
  /\ ret.ok
  /\ ret.result.trades # << >>
  /\ DOMAIN bids_ # {}
  /\ DOMAIN asks_ # {}
  /\ ret.result.trades[1].price > best_bid(Book)
  /\ spread(Book) > 0

\* ---- C22 ----
\* Depth snapshots: bid_depth(N) is min(N, bid_levels) pairs, the best bid
\* first, prices strictly decreasing with no level skipped; ask_depth(N) is
\* min(N, ask_levels) pairs, the best ask first, prices strictly increasing
\* with no level skipped; the quantity of a pair is the sum of the remaining
\* quantities of the orders the index holds at that price on that side.
RECURSIVE SumRemaining(_, _)
SumRemaining(b, ids) ==
  IF ids = {} THEN 0
  ELSE LET e == CHOOSE x \in ids : TRUE
       IN  remaining(OrderOf(b, e)) + SumRemaining(b, ids \ {e})

DepthArgs == 0..(MaxPrice + 2)

AtMost(n, k) == IF n <= k THEN n ELSE k

DepthExact(d, side, n) ==
  /\ Len(d) = AtMost(n, Cardinality(DOMAIN Levels(Book, side)))
  /\ \A i \in 1..Len(d) :
       /\ d[i].price \in DOMAIN Levels(Book, side)
       /\ d[i].quantity = SumRemaining(Book, RestingAt(Book, side, d[i].price))
  /\ Len(d) >= 1 =>
       d[1].price = IF side = "Buy" THEN MaxOf(DOMAIN bids_) ELSE MinOf(DOMAIN asks_)
  /\ \A i \in 1..(Len(d) - 1) :
       /\ Better(Opposite(side), d[i].price, d[i + 1].price)
       /\ ~\E p \in DOMAIN Levels(Book, side) :
            Better(Opposite(side), d[i].price, p)
            /\ Better(Opposite(side), p, d[i + 1].price)

C22_DepthSnapshots ==
  \A n \in DepthArgs :
    /\ DepthExact(bid_depth(Book, n), "Buy", n)
    /\ DepthExact(ask_depth(Book, n), "Sell", n)

\* two bid levels rest, the order at the best one partially filled
C22_Witness ==
  /\ Cardinality(DOMAIN bids_) = 2
  /\ Len(bid_depth(Book, 1)) = 1
  /\ Len(bid_depth(Book, 3)) = 2
  /\ bid_depth(Book, 2)[1].quantity = 1
  /\ \E e \in DOMAIN orders_ :
       /\ OrderOf(Book, e).filled_quantity > 0
       /\ OrderOf(Book, e).price = best_bid(Book)

\* ---- C23 ----
\* Per-price queries: after every operation, for each side and price,
\* volume_at_price is the sum of the remaining quantities of the orders the
\* index holds at that price and side and order_count_at_price is their
\* number (both 0 when there is none); and a submit that trades against a
\* level without filling any of its orders completely lowers the level's
\* volume by the quantity traded there and leaves its count unchanged.
RECURSIVE TradedWith(_, _, _, _)
TradedWith(trades, side, ids, k) ==
  IF k = 0 THEN 0
  ELSE (IF PassiveId(trades[k], side) \in ids THEN trades[k].quantity ELSE 0)
       + TradedWith(trades, side, ids, k - 1)

PerPriceExact(b) ==
  \A side \in SideSet, p \in PriceSet :
    /\ volume_at_price(b, side, p) = SumRemaining(b, RestingAt(b, side, p))
    /\ order_count_at_price(b, side, p) = Cardinality(RestingAt(b, side, p))
    /\ RestingAt(b, side, p) = {} =>
         volume_at_price(b, side, p) = 0 /\ order_count_at_price(b, side, p) = 0

PassivePartialFill(p) ==
  /\ AddStep
  /\ Len(ret'.result.trades) > 0
  /\ RestingAt(Book, Opposite(call'.side), p) # {}
  /\ RestingAt(Book', Opposite(call'.side), p)
       = RestingAt(Book, Opposite(call'.side), p)
  /\ TradedWith(ret'.result.trades, call'.side,
                RestingAt(Book, Opposite(call'.side), p),
                Len(ret'.result.trades)) > 0

C23_Step ==
  \A p \in PriceSet :
       PassivePartialFill(p) =>
         /\ volume_at_price(Book', Opposite(call'.side), p)
              = volume_at_price(Book, Opposite(call'.side), p)
                - TradedWith(ret'.result.trades, call'.side,
                             RestingAt(Book, Opposite(call'.side), p),
                             Len(ret'.result.trades))
         /\ order_count_at_price(Book', Opposite(call'.side), p)
              = order_count_at_price(Book, Opposite(call'.side), p)

C23_PerPriceQueries == []PerPriceExact(Book) /\ [][C23_Step]_vars

\* the last call traded 1 against a bid of 2 that rests beside another bid;
\* the level now shows volume 2 and two orders
C23_Witness ==
  /\ call.op = "add_order" /\ ret.ok /\ call.side = "Sell"
  /\ Len(ret.result.trades) = 1
  /\ \E p \in PriceSet :
       /\ order_count_at_price(Book, "Buy", p) = 2
       /\ volume_at_price(Book, "Buy", p) = 2
       /\ \E e \in RestingAt(Book, "Buy", p) :
            /\ OrderOf(Book, e).filled_quantity = 1
            /\ OrderOf(Book, e).quantity = 2
            /\ ret.result.trades[1].buy_order_id = e

\* ---- C24 ----
\* Statistics counters: every submit that returns raises total_trades by the
\* number of trades in its result and total_volume by the sum of their
\* quantities, which is the result's filled quantity; no operation lowers
\* either counter, a cancel leaves both as they were, and while a callback
\* is installed every operation raises them by the number and the quantity
\* of the trades it delivered (the submit inside a modify included).
C24_Step ==
  /\ trade_count_' >= trade_count_
  /\ total_volume_' >= total_volume_
  /\ AddStep =>
       /\ trade_count_' = trade_count_ + Len(ret'.result.trades)
       /\ total_volume_' = total_volume_ + ret'.result.filled_quantity
       /\ ret'.result.filled_quantity
            = FillBefore(ret'.result.trades, Len(ret'.result.trades) + 1)
  /\ call'.op \in {"cancel_order", "set_trade_callback"} =>
       trade_count_' = trade_count_ /\ total_volume_' = total_volume_
  /\ (trade_callback_ /\ call'.op # "set_trade_callback") =>
       /\ trade_count_' = trade_count_ + Len(delivered')
       /\ total_volume_' = total_volume_ + FillBefore(delivered', Len(delivered') + 1)

C24_StatisticsCounters == [][C24_Step]_vars

\* the last submit made the book's first two trades, of quantity 1 each
C24_Witness ==
  /\ call.op = "add_order" /\ ret.ok
  /\ Len(ret.result.trades) = 2
  /\ ret.result.filled_quantity = 2
  /\ trade_count_ = 2
  /\ total_volume_ = 2

\* ---- C25 ----
\* Index/queue coupling: in every state an operation leaves, each id of the
\* order index refers to a live record carrying that id, the record is queued
\* exactly once over all level queues of both sides, at the level of its own
\* price in the map of its own side; and every record queued at any level is
\* in the order index.
\* the places <<side, price, position>> at which id e is queued
PlacesOf(b, e) ==
  {pl \in SideSet \X PriceSet \X (1..PoolCapacity) :
     /\ pl[2] \in DOMAIN Levels(b, pl[1])
     /\ pl[3] <= Len(QueueIds(b, pl[1], pl[2]))
     /\ QueueIds(b, pl[1], pl[2])[pl[3]] = e}

Indexed(b, e) ==
  /\ e \in DOMAIN b.orders
  /\ b.orders[e] \in DOMAIN b.pool.orders
  /\ b.pool.orders[b.orders[e]].id = e

Coupled(b) ==
  /\ \A e \in DOMAIN b.orders :
       /\ Indexed(b, e)
       /\ Cardinality(PlacesOf(b, e)) = 1
       /\ \A pl \in PlacesOf(b, e) :
            pl[1] = OrderOf(b, e).side /\ pl[2] = OrderOf(b, e).price
  /\ \A e \in IdSet : PlacesOf(b, e) # {} => e \in DOMAIN b.orders
  /\ \A side \in SideSet :
       \A p \in DOMAIN Levels(b, side) :
         \A i \in 1..Len(QueueIds(b, side, p)) :
           QueueIds(b, side, p)[i] \in IdSet

C25_IndexQueueCoupling == Coupled(Book)

\* a submit filled the only order of the best ask level and rested its
\* remainder as a bid while another ask stayed: one order left the index and
\* its queue, another joined
C25_Witness ==
  /\ call.op = "add_order" /\ ret.ok
  /\ Len(ret.result.trades) = 1
  /\ ret.result.status = "PartiallyFilled"
  /\ Cardinality(DOMAIN orders_) = 2
  /\ Cardinality(DOMAIN bids_) = 1 /\ Cardinality(DOMAIN asks_) = 1

\* ---- C26 ----
\* Cached aggregates are exact: in every state an operation leaves, each
\* level's cached order count is the length of its queue (the records reached
\* from its head by the next links) and its cached total quantity is the sum
\* of the remaining quantities of those records.
RECURSIVE WalkRemaining(_, _)
WalkRemaining(po, slot) ==
  IF slot = nullptr THEN 0
  ELSE (po[slot].quantity - po[slot].filled_quantity)
       + WalkRemaining(po, po[slot].next)

RECURSIVE WalkLength(_, _)
WalkLength(po, slot) ==
  IF slot = nullptr THEN 0 ELSE 1 + WalkLength(po, po[slot].next)

AggregatesExact(b) ==
  \A side \in SideSet :
    \A p \in DOMAIN Levels(b, side) :
      /\ Levels(b, side)[p].order_count
           = WalkLength(b.pool.orders, Levels(b, side)[p].head)
      /\ Levels(b, side)[p].total_quantity
           = WalkRemaining(b.pool.orders, Levels(b, side)[p].head)

C26_CachedAggregates == AggregatesExact(Book)

\* a modify-up has just moved an order of 1 behind its neighbour with a new
\* id and quantity 2: the level still counts two orders and now totals 3
C26_Witness ==
  /\ call.op = "modify_order" /\ ret.ok /\ call.quantity = 2
  /\ call.order_id \notin DOMAIN orders_
  /\ next_id_ \in DOMAIN orders_
  /\ \E p \in DOMAIN bids_ :
       /\ bids_[p].order_count = 2
       /\ bids_[p].total_quantity = 3
       /\ Len(QueueIds(Book, "Buy", p)) = 2
       /\ QueueIds(Book, "Buy", p)[2] = next_id_

\* ---- C27 ----
\* No empty levels: in every state an operation leaves, every price level
\* present in either side map has a non-empty queue and at least one indexed
\* order rests at its price and side; so a level whose last order an
\* operation removed (by a full passive fill, a cancel or a modify) has left
\* its map by the end of that operation.
NoEmptyLevel(b) ==
  \A side \in SideSet :
    \A p \in DOMAIN Levels(b, side) :
      /\ Levels(b, side)[p].head # nullptr
      /\ Levels(b, side)[p].tail # nullptr
      /\ RestingAt(b, side, p) # {}

C27_NoEmptyLevels == NoEmptyLevel(Book)

\* a buy has just filled the only ask of the best ask level against a second
\* ask level that stays: the traded price is no longer a level
C27_Witness ==
  /\ call.op = "add_order" /\ ret.ok /\ call.side = "Buy"
  /\ Len(ret.result.trades) = 1
  /\ ret.result.status = "Filled"
  /\ Cardinality(DOMAIN asks_) = 1
  /\ ret.result.trades[1].price \notin DOMAIN asks_

\* ---- C28 ----
\* Order count consistency: in every state an operation leaves,
\* total_orders() is the number of ids in the order index and the sum of the
\* cached order counts of all levels of both sides, and empty() holds exactly
\* when neither side map has a level.
RECURSIVE SumCounts(_, _)
SumCounts(levels, prices) ==
  IF prices = {} THEN 0
  ELSE LET p == CHOOSE x \in prices : TRUE
       IN  levels[p].order_count + SumCounts(levels, prices \ {p})

C28_OrderCountConsistency ==
  /\ total_orders(Book) = Cardinality(DOMAIN orders_)
  /\ total_orders(Book)
       = SumCounts(bids_, DOMAIN bids_) + SumCounts(asks_, DOMAIN asks_)
  /\ empty(Book) <=> (DOMAIN bids_ = {} /\ DOMAIN asks_ = {})
  /\ empty(Book) <=> (bid_levels(Book) = 0 /\ ask_levels(Book) = 0)

\* a cancel has just removed one of three submitted orders: a bid and an ask
\* remain, one level on each side, the book not empty
C28_Witness ==
  /\ call.op = "cancel_order" /\ ret.ok
  /\ total_orders(Book) = 2
  /\ bid_levels(Book) = 1 /\ ask_levels(Book) = 1
  /\ ~empty(Book)
  /\ next_id_ = MaxId

\* ---- C29 ----
\* Queue order is arrival order: in every state an operation leaves, along
\* every level queue from head to tail each record has a larger timestamp
\* and a larger id than the record before it.
RECURSIVE WalkSlots(_, _)
WalkSlots(po, slot) ==
  IF slot = nullptr THEN << >> ELSE <<slot>> \o WalkSlots(po, po[slot].next)

ArrivalOrder(b) ==
  \A side \in SideSet :
    \A p \in DOMAIN Levels(b, side) :
      LET q == WalkSlots(b.pool.orders, Levels(b, side)[p].head) IN
      \A i \in 1..(Len(q) - 1) :
        /\ b.pool.orders[q[i]].timestamp < b.pool.orders[q[i + 1]].timestamp
        /\ b.pool.orders[q[i]].id < b.pool.orders[q[i + 1]].id

C29_QueueArrivalOrder == ArrivalOrder(Book)

\* a cancel has just taken the middle order out of a queue of three: the
\* first and the third submitted order remain, in that order
C29_Witness ==
  /\ call.op = "cancel_order" /\ ret.ok /\ call.order_id = 2
  /\ \E side \in SideSet :
       \E p \in DOMAIN Levels(Book, side) :
         QueueIds(Book, side, p) = <<1, 3>>

\* ---- C30 ----
\* Resting orders have open quantity: in every state an operation leaves,
\* every order of the order index has filled_quantity < quantity, every
\* record queued at a level has a remaining quantity above 0, and every
\* level's cached total quantity is at least its cached order count.
OpenQuantity(b) ==
  /\ \A e \in DOMAIN b.orders :
       OrderOf(b, e).filled_quantity < OrderOf(b, e).quantity
  /\ \A side \in SideSet :
       \A p \in DOMAIN Levels(b, side) :
         /\ \A i \in 1..Len(WalkSlots(b.pool.orders, Levels(b, side)[p].head)) :
              b.pool.orders[WalkSlots(b.pool.orders,
                                      Levels(b, side)[p].head)[i]].quantity
              > b.pool.orders[WalkSlots(b.pool.orders,
                                        Levels(b, side)[p].head)[i]].filled_quantity
         /\ Levels(b, side)[p].total_quantity >= Levels(b, side)[p].order_count

C31_Original ==
  \A e \in DOMAIN orders_ :
    OrderOf(Book, e).status
      = IF OrderOf(Book, e).filled_quantity = 0 THEN "Active"
        ELSE "PartiallyFilled"

\* What the code does: the status of a resting order is set once, when the
\* order rests (Active, or PartiallyFilled when it traded as the aggressor),
\* and no passive fill changes it afterwards: an order with status
\* PartiallyFilled has a fill, an order without a fill is Active, and an
\* order that keeps resting over a step keeps its status.
C31_Step ==
  /\ \A e \in DOMAIN orders_' :
       /\ OrderOf(Book', e).status \in {"Active", "PartiallyFilled"}
       /\ OrderOf(Book', e).status = "PartiallyFilled" =>
            OrderOf(Book', e).filled_quantity > 0
       /\ e \in DOMAIN orders_ =>
            OrderOf(Book', e).status = OrderOf(Book, e).status

C31_StatusSetAtRest == [][C31_Step]_vars

\* a sell of 1 has just traded against a resting bid of 2: the bid keeps
\* resting with filled quantity 1 and status Active
C31_Witness ==
  /\ call.op = "add_order" /\ ret.ok /\ call.side = "Sell"
  /\ Len(ret.result.trades) = 1
  /\ \E e \in DOMAIN orders_ :
       /\ ret.result.trades[1].buy_order_id = e
       /\ OrderOf(Book, e).filled_quantity = 1
       /\ OrderOf(Book, e).quantity = 2
       /\ OrderOf(Book, e).status = "Active"

\* ---- C32 ----
\* Timestamps: a submit that returns raises the timestamp counter by exactly
\* 1, however many trades it makes; a submit that throws, a cancel and a
\* modify that does not resubmit leave the counter as it was; every trade of
\* a submit carries the counter's new value, which is also the timestamp of
\* the aggressor when it rests; and the timestamp of a trade is above the
\* timestamp of the passive order it fills.
C32_Step ==
  /\ AddStep =>
       /\ timestamp_counter_' = timestamp_counter_ + 1
       /\ \A k \in 1..Len(ret'.result.trades) :
            /\ ret'.result.trades[k].timestamp = timestamp_counter_'
            /\ PassiveId(ret'.result.trades[k], call'.side) \in DOMAIN orders_
            /\ OrderOf(Book, PassiveId(ret'.result.trades[k], call'.side)).timestamp
                 < ret'.result.trades[k].timestamp
       /\ ret'.result.order_id \in DOMAIN orders_' =>
            OrderOf(Book', ret'.result.order_id).timestamp = timestamp_counter_'
  /\ (call'.op = "add_order" /\ ret'.threw) =>
       timestamp_counter_' = timestamp_counter_
  /\ call'.op \in {"cancel_order", "set_trade_callback"} =>
       timestamp_counter_' = timestamp_counter_
  /\ call'.op = "modify_order" =>
       timestamp_counter_'
         = timestamp_counter_
           + (IF IsIncrease(call'.order_id, call'.quantity) THEN 1 ELSE 0)

C32_Timestamps == [][C32_Step]_vars

\* the third submit has just made two trades, both stamped 3, against the
\* orders stamped 1 and 2
C32_Witness ==
  /\ call.op = "add_order" /\ ret.ok
  /\ timestamp_counter_ = 3
  /\ Len(ret.result.trades) = 2
  /\ ret.result.trades[1].timestamp = 3
  /\ ret.result.trades[2].timestamp = 3

\* ---- C33 ----
\* No pool leak and no double release: in every state an operation leaves,
\* the pool's live size is total_orders(); the live records are exactly the
\* records of the order index, one slot per id; no slot is on the free stack
\* twice; no slot of an indexed or queued record is on the free stack; and
\* the record of an order that leaves the index is released in that step.
SlotsOf(b) == {b.orders[e] : e \in DOMAIN b.orders}

FreeSlots(pool) == {pool.free_stack[i] : i \in 1..Len(pool.free_stack)}

QueuedSlots(b) ==
  UNION {UNION {{WalkSlots(b.pool.orders, Levels(b, side)[p].head)[i] :
                   i \in 1..Len(WalkSlots(b.pool.orders, Levels(b, side)[p].head))} :
                p \in DOMAIN Levels(b, side)} :
         side \in SideSet}

NoLeakNoDoubleRelease(b) ==
  /\ b.pool.size = Cardinality(DOMAIN b.orders)
  /\ Cardinality(SlotsOf(b)) = Cardinality(DOMAIN b.orders)
  /\ DOMAIN b.pool.orders = SlotsOf(b)
  /\ Cardinality(FreeSlots(b.pool)) = Len(b.pool.free_stack)
  /\ FreeSlots(b.pool) \cap SlotsOf(b) = {}
  /\ FreeSlots(b.pool) \cap QueuedSlots(b) = {}
  /\ QueuedSlots(b) = SlotsOf(b)

\* the record of an order that leaves the index was live before the step and
\* is released by it: afterwards its slot is free, or already handed out
\* again to the order the same call submitted
C33_Released ==
  \A e \in (DOMAIN orders_) \ (DOMAIN orders_') :
    /\ orders_[e] \notin FreeSlots(pool_)
    /\ \/ orders_[e] \in FreeSlots(pool_')
       \/ /\ call'.op = "modify_order"
          /\ orders_[e] \in SlotsOf(Book')

C33_NoPoolLeak == []NoLeakNoDoubleRelease(Book) /\ [][C33_Released]_vars

\* an unfilled market order has just been discarded while two orders rest
\* and a third slot, used and released before, is free again
C33_Witness ==
  /\ call.op = "add_order" /\ ret.ok /\ call.type = "Market"
  /\ ret.result.status = "Cancelled"
  /\ pool_.size = 2
  /\ Cardinality(DOMAIN orders_) = 2
  /\ Len(pool_.free_stack) = 1

\* ---- C34 ----
\* Pool accounting: for a pool of PoolSlots slots, after every sequence of
\* acquire and release calls (release of live records only),
\* size() + available() = PoolSlots and 0 <= size() <= PoolSlots; an acquire
\* with available() > 0 succeeds, raises size() by 1 and lowers available()
\* by 1; an acquire with available() = 0 fails and changes neither; a
\* release lowers size() by 1 and raises available() by 1.
PoolAccounts(pool, capacity) ==
  /\ pool.size + available(pool) = capacity
  /\ 0 <= pool.size
  /\ pool.size <= capacity

C34_Step ==
  /\ (call'.op = "allocate" /\ available(pool_) > 0) =>
       /\ ret'.ok /\ ~ret'.threw
       /\ pool_'.size = pool_.size + 1
       /\ available(pool_') = available(pool_) - 1
  /\ (call'.op = "allocate" /\ available(pool_) = 0) =>
       /\ ret'.threw /\ ~ret'.ok
       /\ pool_'.size = pool_.size
       /\ available(pool_') = available(pool_)
  /\ call'.op = "deallocate" =>
       /\ pool_'.size = pool_.size - 1
       /\ available(pool_') = available(pool_) + 1
  /\ call'.op = "write" =>
       /\ pool_'.size = pool_.size
       /\ available(pool_') = available(pool_)

C34_PoolAccounting == []PoolAccounts(pool_, PoolSlots) /\ [][C34_Step]_vars

\* an acquire has just failed on the full pool
C34_Witness ==
  /\ call.op = "allocate" /\ ret.threw
  /\ pool_.size = PoolSlots
  /\ available(pool_) = 0

\* ---- C35 ----
\* Pool reuse is LIFO with reset: an acquire that directly follows a release
\* returns the slot just released; the slot an acquire returns is not the
\* slot of a live record, and the live records are left as they are; and the
\* record an acquire returns has every field at its default (id 0, price
\* INVALID_PRICE, quantity 0, filled 0, status New, no links), whatever was
\* written to the slot before its release.
IsReset(o) ==
  /\ o.id = 0 /\ o.price = INVALID_PRICE /\ o.quantity = 0
  /\ o.filled_quantity = 0 /\ o.side = "Buy" /\ o.type = "Limit"
  /\ o.status = "New" /\ o.prev = nullptr /\ o.next = nullptr
  /\ o.timestamp = 0

\* in any state of the pool: what the next acquire would return, and what an
\* acquire after the release of any live record would return
ReuseFrom(pool, capacity) ==
  /\ available(pool) > 0 =>
       /\ allocate_slot(pool) \notin live_slots(pool, capacity)
       /\ IsReset(allocate(pool).orders[allocate_slot(pool)])
  /\ \A s \in live_slots(pool, capacity) :
       /\ allocate_slot([deallocate(pool, s) EXCEPT !.orders = pool.orders]) = s
       /\ IsReset(allocate([deallocate(pool, s) EXCEPT !.orders = pool.orders])
                    .orders[s])

C35_Step ==
  (call'.op = "allocate" /\ ret'.ok) =>
    /\ call.op = "deallocate" => ret'.result.order_id = call.order_id
    /\ ret'.result.order_id \notin live_slots(pool_, PoolSlots)
    /\ ret'.result.order_id \in live_slots(pool_', PoolSlots)
    /\ IsReset(pool_'.orders[ret'.result.order_id])
    /\ \A s \in live_slots(pool_, PoolSlots) : pool_'.orders[s] = pool_.orders[s]

C35_PoolReuse == []ReuseFrom(pool_, PoolSlots) /\ [][C35_Step]_vars

\* a record that was written to has just been released while another record
\* is live: its slot is on top of the free stack with the written fields
\* still in it, and the acquire that follows returns that slot, reset
C35_Witness ==
  /\ call.op = "deallocate"
  /\ pool_.size >= 1
  /\ allocate_slot(pool_) = call.order_id
  /\ pool_.orders[call.order_id].id = 42
  /\ \E s \in live_slots(pool_, PoolSlots) : pool_.orders[s].id = 7
  /\ IsReset(allocate(pool_).orders[call.order_id])

\* ---- C36 ----
\* Price-level queue operations, applied to every queue the book can hold
\* and every order in it (at the head, at the tail or between): remove_order
\* takes exactly that order out and keeps the others in their order, clears
\* the removed order's prev and next, leaves head, tail and the neighbours'
\* links consistent, and leaves head and tail empty with count 0 and total
\* quantity 0 when the order was the last; add_order of the removed order
\* then puts it at the tail and leaves the head as it was when the queue
\* was not empty.
\* head, tail, the links and the aggregates of a level describe one queue
LevelConsistent(po, lv) ==
  LET q == WalkSlots(po, lv.head) IN
  /\ (lv.head = nullptr) <=> (lv.tail = nullptr)
  /\ Len(q) > 0 =>
       /\ lv.tail = q[Len(q)]
       /\ po[q[1]].prev = nullptr
       /\ po[q[Len(q)]].next = nullptr
  /\ \A i \in 1..(Len(q) - 1) : po[q[i + 1]].prev = q[i]
  /\ lv.order_count = Len(q)
  /\ lv.total_quantity = WalkRemaining(po, lv.head)
  /\ Len(q) = 0 => lv.order_count = 0 /\ lv.total_quantity = 0

\* b1 is b after remove_order of slot o at (side, p)
RemovedFrom(b, b1, side, p, o) ==
  /\ WalkSlots(b1.pool.orders, Levels(b1, side)[p].head)
       = Without(WalkSlots(b.pool.orders, Levels(b, side)[p].head), o)
  /\ b1.pool.orders[o].prev = nullptr
  /\ b1.pool.orders[o].next = nullptr
  /\ LevelConsistent(b1.pool.orders, Levels(b1, side)[p])
  /\ \A s \in DOMAIN b.pool.orders :
       Fields(b1.pool.orders[s]) = Fields(b.pool.orders[s])

\* b2 is b1 after add_order of slot o at (side, p)
AppendedTo(b1, b2, side, p, o) ==
  /\ WalkSlots(b2.pool.orders, Levels(b2, side)[p].head)
       = Append(WalkSlots(b1.pool.orders, Levels(b1, side)[p].head), o)
  /\ Levels(b2, side)[p].tail = o
  /\ Levels(b1, side)[p].head # nullptr =>
       Levels(b2, side)[p].head = Levels(b1, side)[p].head
  /\ LevelConsistent(b2.pool.orders, Levels(b2, side)[p])

QueueOperations(b) ==
  \A side \in SideSet :
    \A p \in DOMAIN Levels(b, side) :
      /\ LevelConsistent(b.pool.orders, Levels(b, side)[p])
      /\ \A i \in 1..Len(WalkSlots(b.pool.orders, Levels(b, side)[p].head)) :
           /\ RemovedFrom(
                b,
                PriceLevel_remove_order(
                  b, side, p,
                  WalkSlots(b.pool.orders, Levels(b, side)[p].head)[i]),
                side, p,
                WalkSlots(b.pool.orders, Levels(b, side)[p].head)[i])
           /\ AppendedTo(
                PriceLevel_remove_order(
                  b, side, p,
                  WalkSlots(b.pool.orders, Levels(b, side)[p].head)[i]),
                PriceLevel_add_order(
                  PriceLevel_remove_order(
                    b, side, p,
                    WalkSlots(b.pool.orders, Levels(b, side)[p].head)[i]),
                  side, p,
                  WalkSlots(b.pool.orders, Levels(b, side)[p].head)[i]),
                side, p,
                WalkSlots(b.pool.orders, Levels(b, side)[p].head)[i])

C36_QueueOperations == QueueOperations(Book)

\* three orders queue at one level: removing the middle one leaves the first
\* and the third, and appending it again puts it behind the third
C36_Witness ==
  \E side \in SideSet :
    \E p \in DOMAIN Levels(Book, side) :
      /\ QueueIds(Book, side, p) = <<1, 2, 3>>
      /\ QueueIds(PriceLevel_remove_order(Book, side, p, orders_[2]), side, p)
           = <<1, 3>>
      /\ QueueIds(PriceLevel_add_order(
                    PriceLevel_remove_order(Book, side, p, orders_[2]),
                    side, p, orders_[2]), side, p)
           = <<1, 3, 2>>

\* ---- C37 ----
\* Matching is maximal: a submit that returns with open quantity left on
\* its order leaves nothing it could have traded with: for a market order
\* (status Cancelled) the opposite side map is empty afterwards; for a limit
\* order the opposite side map is empty afterwards or its best price does
\* not cross the order's limit.
Crossable(side, type, limit, opposite) ==
  /\ DOMAIN opposite # {}
  /\ \/ type = "Market"
     \/ side = "Buy" /\ MinOf(DOMAIN opposite) <= limit
     \/ side = "Sell" /\ MaxOf(DOMAIN opposite) >= limit

C37_Step ==
  /\ (AddStep /\ ret'.result.remaining_quantity > 0) =>
       /\ ~Crossable(call'.side, call'.type, call'.price,
                     IF call'.side = "Buy" THEN asks_' ELSE bids_')
       /\ call'.type = "Market" =>
            /\ ret'.result.status = "Cancelled"
            /\ DOMAIN (IF call'.side = "Buy" THEN asks_' ELSE bids_') = {}
  /\ (AddStep /\ ret'.result.status = "Cancelled") =>
       /\ call'.type = "Market"
       /\ DOMAIN (IF call'.side = "Buy" THEN asks_' ELSE bids_') = {}

C37_MatchingMaximal == [][C37_Step]_vars

\* a limit sell of 2 has just traded 1 with the only crossable bid and rests
\* its remainder, while a bid below its limit stays
C37_Witness ==
  /\ call.op = "add_order" /\ ret.ok
  /\ call.side = "Sell" /\ call.type = "Limit"
  /\ Len(ret.result.trades) = 1
  /\ ret.result.remaining_quantity = 1
  /\ DOMAIN bids_ # {}
  /\ MaxOf(DOMAIN bids_) < call.price

\* ---- C38 ----
\* Modify never trades: a call to modify_order, whatever its branch, leaves
\* total_trades and total_volume as they were, delivers no trade to the
\* callback, fills no order and removes no order other than its own; in the
\* increase branch the order submitted in place of the old one rests with
\* the new quantity, filled quantity 0 and status Active.
C38_Step ==
  call'.op = "modify_order" =>
    /\ trade_count_' = trade_count_
    /\ total_volume_' = total_volume_
    /\ delivered' = << >>
    /\ ret'.result.trades = << >>
    /\ \A e \in (DOMAIN orders_) \ {call'.order_id} :
         /\ e \in DOMAIN orders_'
         /\ OrderOf(Book', e).filled_quantity = OrderOf(Book, e).filled_quantity
    /\ IsIncrease(call'.order_id, call'.quantity) =>
         /\ ret'.ok
         /\ next_id_' = next_id_ + 1
         /\ next_id_' \in DOMAIN orders_'
         /\ OrderOf(Book', next_id_').quantity = call'.quantity
         /\ OrderOf(Book', next_id_').filled_quantity = 0
         /\ OrderOf(Book', next_id_').status = "Active"
         /\ OrderOf(Book', next_id_').type = "Limit"

C38_ModifyNeverTrades == [][C38_Step]_vars

\* with a callback installed and orders resting on both sides, a modify has
\* just raised a bid to quantity 2: it rests under a new id, nothing traded
C38_Witness ==
  /\ call.op = "modify_order" /\ ret.ok /\ call.quantity = 2
  /\ trade_callback_
  /\ call.order_id \notin DOMAIN orders_
  /\ next_id_ \in DOMAIN orders_
  /\ OrderOf(Book, next_id_).side = "Buy"
  /\ OrderOf(Book, next_id_).quantity = 2
  /\ DOMAIN asks_ # {}
  /\ trade_count_ = 0

\* ---- C39 ----
\* Modify-up cannot exhaust the pool: a modify_order that raises the total
\* quantity of a resting order returns true and does not throw, also when
\* no pool slot is free before the call, and leaves the pool's live size and
\* total_orders() as they were.
C39_Step ==
  (call'.op = "modify_order" /\ IsIncrease(call'.order_id, call'.quantity)) =>
    /\ ret'.ok
    /\ ~ret'.threw
    /\ pool_'.size = pool_.size
    /\ available(pool_') = available(pool_)
    /\ total_orders(Book') = total_orders(Book)
    /\ call'.order_id \notin DOMAIN orders_'

C39_ModifyUpKeepsPool == [][C39_Step]_vars

\* both slots of the pool are in use and a modify has just raised one of the
\* two resting orders: it rests under a new id, the pool is still full
C39_Witness ==
  /\ call.op = "modify_order" /\ ret.ok /\ call.quantity = 2
  /\ call.order_id \notin DOMAIN orders_
  /\ next_id_ \in DOMAIN orders_
  /\ OrderOf(Book, next_id_).quantity = 2
  /\ available(pool_) = 0
  /\ pool_.size = SmallPoolCapacity
  /\ total_orders(Book) = SmallPoolCapacity

\* ---- C40 ----
\* Each passive order is touched at most once in a submit: the passive
\* orders of the trades of one submit are pairwise distinct; every trade but
\* the last fills its passive order completely and removes it from the
\* book; and the number of trades is at most the number of orders that
\* rested on the opposite side when the submit began.
OppositeResting(b, side) ==
  {e \in DOMAIN b.orders : OrderOf(b, e).side = Opposite(side)}

C40_Step ==
  (AddStep /\ Len(ret'.result.trades) > 0) =>
    /\ \A j, k \in 1..Len(ret'.result.trades) :
         j # k => PassiveId(ret'.result.trades[j], call'.side)
                    # PassiveId(ret'.result.trades[k], call'.side)
    /\ \A k \in 1..Len(ret'.result.trades) :
         /\ PassiveId(ret'.result.trades[k], call'.side)
              \in OppositeResting(Book, call'.side)
         /\ ret'.result.trades[k].quantity > 0
         /\ k < Len(ret'.result.trades) =>
              /\ PassiveId(ret'.result.trades[k], call'.side) \notin DOMAIN orders_'
              /\ ret'.result.trades[k].quantity
                   = remaining(OrderOf(Book, PassiveId(ret'.result.trades[k],
                                                       call'.side)))
    /\ Len(ret'.result.trades)
         <= Cardinality(OppositeResting(Book, call'.side))

C40_PassiveTouchedOnce == [][C40_Step]_vars

\* a submit has just made two trades: the first filled and removed its
\* passive order, the second left its passive order resting, filled 1 of 2
C40_Witness ==
  /\ call.op = "add_order" /\ ret.ok
  /\ Len(ret.result.trades) = 2
  /\ PassiveId(ret.result.trades[1], call.side) \notin DOMAIN orders_
  /\ PassiveId(ret.result.trades[2], call.side) \in DOMAIN orders_
  /\ OrderOf(Book, PassiveId(ret.result.trades[2], call.side)).filled_quantity = 1
  /\ OrderOf(Book, PassiveId(ret.result.trades[2], call.side)).quantity = 2

====
